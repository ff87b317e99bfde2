-------------------------------- MODULE Specs -------------------------------
(***************************************************************************)
(* What a container is configured with, on every route it takes: from the  *)
(* builder's options to the ContainerSpec; from there to the flags of      *)
(* `msb run` and `msb restore` or the body of docker's create request, and *)
(* so to the sandbox; into a checkpoint, into the registry entry of a      *)
(* named one and back into a builder; and into the identity of a reuse     *)
(* container.                                                              *)
(*                                                                         *)
(* A sandbox is a record of what its workload has: env, the command it     *)
(* runs, its port bindings, the host files mounted into it, memory, root   *)
(* disk, and what its network lets through.  A limit is a number, 0 for    *)
(* none.                                                                   *)
(***************************************************************************)
EXTENDS Naturals, FiniteSets

None == "none"

-----------------------------------------------------------------------------
(* The builder: its options beside the environment and the TCP ports.      *)
(* links: those to the siblings on the network, by protocol and host port. *)

Default ==
  [command |-> None, memory |-> 0, disk |-> 0, tmpfs |-> 0,
   offline |-> FALSE, files |-> {}, udp |-> {}, network |-> FALSE,
   links |-> {}, isolation |-> FALSE]

\* what the setters leave in the fields, over small values; a UDP port may
\* have the number of a TCP one, and a tmpfs root be larger than the memory
Settings ==
  {o \in [command : {None, "mine"}, memory : {0, 1}, disk : {0, 1},
          tmpfs : {0, 1, 2}, offline : BOOLEAN, files : {{}, {"/etc/own"}},
          udp : {{}, {80}}, network : BOOLEAN,
          links : {{}, {<<"tcp", 5400>>, <<"udp", 5300>>}},
          isolation : BOOLEAN] :
     o.links # {} => o.network}

\* the options that set at most so many fields
Setting(n) ==
  {o \in Settings : Cardinality({f \in DOMAIN o : o[f] # Default[f]}) <= n}

\* validate_spec_conflicts
Conflicting(o) ==
  \/ o.disk > 0 /\ o.tmpfs > 0
  \/ o.memory > 0 /\ o.tmpfs > o.memory
  \/ o.offline /\ o.network

-----------------------------------------------------------------------------
(* The spec                                                                *)

Binding(protocol, ports) ==
  {[guest |-> p, protocol |-> protocol, host |-> ports[p]] : p \in DOMAIN ports}
MergePortBindings(tcp, udp) == Binding("tcp", tcp) \cup Binding("udp", udp)
GuestPorts(spec, protocol) ==
  {b.guest : b \in {c \in spec.ports : c.protocol = protocol}}
\* what the guard answers for a port; empty: an error.  The two protocols have
\* each their own list
GetMappedPort(spec, p) ==
  {b.host : b \in {c \in spec.ports : c.guest = p /\ c.protocol = "tcp"}}
GetMappedUdpPort(spec, p) ==
  {b.host : b \in {c \in spec.ports : c.guest = p /\ c.protocol = "udp"}}
\* what a customizer is told: the TCP mapping of a guest port before the UDP
Mapped(spec, p) ==
  IF p \in GuestPorts(spec, "tcp")
  THEN (CHOOSE b \in spec.ports : b.guest = p /\ b.protocol = "tcp").host
  ELSE (CHOOSE b \in spec.ports : b.guest = p).host

UdpEgressPorts(links) == {l \in links : l[1] = "udp"}

\* restored: whether checkpoint_ref is set; captured: the command line that
\* the checkpoint found in the guest
ContainerSpec(o, env, ports, restored, captured) ==
  [env |-> env, command |-> o.command, ports |-> ports, files |-> o.files,
   memory |-> o.memory, disk |-> o.disk, tmpfs |-> o.tmpfs,
   offline |-> o.offline, egress |-> UdpEgressPorts(o.links),
   restored |-> restored, captured |-> captured]

-----------------------------------------------------------------------------
(* The backends                                                            *)

NoSandbox ==
  [env |-> <<>>, command |-> None, ports |-> {}, files |-> {}, memory |-> 0,
   root |-> <<"none">>, net |-> {}]
\* what the image's own entrypoint is, and its content beside the disk
Image == [env |-> <<>>, command |-> "entrypoint"]

\* msb's default policy: the internet and what connects to published ports;
\* a rule without a profile is put before it
Public == <<"public">>
Ingress == <<"ingress">>
DefaultNet == {Public, Ingress}

\* msb run
Run(spec) ==
  [env |-> spec.env,
   command |-> IF spec.command = None THEN Image.command ELSE spec.command,
   ports |-> spec.ports, files |-> spec.files, memory |-> spec.memory,
   root |-> IF spec.disk > 0 THEN <<"disk", spec.disk>>
            ELSE IF spec.tmpfs > 0 THEN <<"tmpfs", spec.tmpfs>> ELSE <<"image">>,
   net |-> (DefaultNet \ (IF spec.offline THEN {Public} ELSE {}))
           \cup spec.egress]

\* what `msb exec` revives in a restored sandbox; None: there is nothing to
\* run, and the boot fails
Workload(spec) == IF spec.command = None THEN spec.captured ELSE spec.command

\* --net-default deny with one --net-rule: everything, inbound too, is denied
\* that the rule does not name
Replaced(egress) == {Public, Ingress} \cup egress
\* Mutant of Restore: the rule forgets the published ports
RestoreUnreachable(spec) ==
  [env |-> spec.env, command |-> Workload(spec), ports |-> spec.ports,
   files |-> spec.files, memory |-> spec.memory, root |-> <<"snapshot">>,
   net |-> IF spec.egress = {} THEN DefaultNet
           ELSE {Public} \cup spec.egress]
\* msb restore, then msb exec: neither has a flag for the root disk, and
\* there is no --net private
Restore(spec) ==
  [env |-> spec.env, command |-> Workload(spec), ports |-> spec.ports,
   files |-> spec.files, memory |-> spec.memory, root |-> <<"snapshot">>,
   net |-> IF spec.egress = {} THEN DefaultNet ELSE Replaced(spec.egress)]

\* two environments, of which the first has the last word
Over(f, g) ==
  [k \in DOMAIN f \cup DOMAIN g |-> IF k \in DOMAIN f THEN f[k] ELSE g[k]]

\* docker's create request, over an image with an environment and a command of
\* its own; the root disk and the network are as always, which reaches every
\* sibling
CreateBody(spec, image) ==
  [env |-> Over(spec.env, image.env),
   command |-> IF spec.command = None THEN image.command ELSE spec.command,
   ports |-> spec.ports, files |-> spec.files, memory |-> spec.memory,
   root |-> <<"image">>, net |-> DefaultNet \cup spec.egress]

-----------------------------------------------------------------------------
(* Checkpoints                                                             *)

\* Mutant of Reduced: the ports as they were before there were UDP ones
ReducedTcpOnly(spec) ==
  [env |-> spec.env, command |-> spec.command, memory |-> spec.memory,
   exposed |-> {b.guest : b \in spec.ports}, exposedUdp |-> {},
   captured |-> spec.captured]
\* NamedRegistrySpec::from_container_spec: what the entry of a named
\* checkpoint keeps of the spec
Reduced(spec) ==
  [env |-> spec.env, command |-> spec.command, memory |-> spec.memory,
   exposed |-> GuestPorts(spec, "tcp"), exposedUdp |-> GuestPorts(spec, "udp"),
   captured |-> spec.captured]
\* checkpoint_from_reduced: host port 0, the rest at its default
FromReduced(r) ==
  ContainerSpec([Default EXCEPT !.command = r.command, !.memory = r.memory],
                r.env,
                MergePortBindings([p \in r.exposed |-> 0],
                                  [p \in r.exposedUdp |-> 0]),
                FALSE, r.captured)

\* Container::from_checkpoint: the options of the builder it seeds
FromCheckpoint(spec) ==
  [Default EXCEPT !.command = spec.command, !.memory = spec.memory,
                  !.udp = GuestPorts(spec, "udp")]

-----------------------------------------------------------------------------
(* Reuse                                                                   *)

\* Mutant of Identity: the ports in one list, as before there were UDP ones
IdentityOfPorts(tcp, env, o) ==
  [env |-> env, command |-> o.command, exposed |-> tcp \cup o.udp,
   memory |-> o.memory, files |-> o.files, disk |-> o.disk,
   tmpfs |-> o.tmpfs, offline |-> o.offline]
\* compute_identity over canonical_json, for one image: files by guest path
\* and content; neither aliases nor a network, which reuse refuses
Identity(tcp, env, o) ==
  [env |-> env, command |-> o.command, exposed |-> tcp, memory |-> o.memory,
   files |-> o.files, disk |-> o.disk, tmpfs |-> o.tmpfs,
   offline |-> o.offline, exposedUdp |-> o.udp]
=============================================================================

------------------------------- MODULE Presets ------------------------------
(***************************************************************************)
(* The preset containers of crates/rightsize-modules over the core: the    *)
(* builder's environment and ports, the choice of a backend, the attempts  *)
(* with their spec customizer, the sandbox of the spec (Specs), the wait   *)
(* strategy against a server that goes through the stages of its own boot, *)
(* post_start, the diagnostics registry, what the guard reports, and a     *)
(* checkpoint with the container that is started from it.                  *)
(*                                                                         *)
(* A preset is a record, Own the record of a plain Container; a behaviour  *)
(* is the life of one container of one preset, then that of the one        *)
(* restored from it.  A guest port is its number, the host port that       *)
(* attempt a gives it is <<port, a>>: allocate_ports never repeats one     *)
(* (see FreePorts).                                                        *)
(***************************************************************************)
EXTENDS Specs, Sequences

CONSTANTS Attempts,  \* PORT_BIND_ATTEMPTS, or a bound below it
          Calls,     \* bound: with_... calls of the user
          Set        \* bound: options of a plain container set at once

ASSUME PresetsAssumption ==
  Attempts \in Nat \ {0} /\ Calls \in Nat /\ Set \in Nat

-----------------------------------------------------------------------------
(* What a preset waits for.  A log line is what it says and the port that  *)
(* it names, 0 for none.                                                   *)

Lines == {"ready", "mysqld", "xplugin", "mariadb"} \X {0, 3306, 33060}

\* Wait::for_log_message: so many lines that match the pattern
LogMessage(says, n) ==
  [on |-> "log", says |-> says, times |-> n, ports |-> {}]
\* Wait::for_http on a port: the port answers the path with the status
Http(port) == [on |-> "port", says |-> {}, times |-> 0, ports |-> {port}]
\* Wait::for_listening_port: every exposed port passes the read probe.  A
\* connection that is closed does not; one that is held open does, and a
\* forwarder may hold it before the server is there (redis.rs, valkey.rs)
ListeningPort(ports) ==
  [on |-> "listen", says |-> {}, times |-> 0, ports |-> ports]
\* memcached's VERSION handshake
MemcachedResponds == [on |-> "port", says |-> {}, times |-> 0,
                      ports |-> {11211}]

Plain == LogMessage({<<"ready", 0>>}, 1)

\* MySqlReadyForConnections: the line of mysqld itself, and 3306 not followed
\* by another digit
LineSignalsReady(line) == line[1] = "mysqld" /\ line[2] = 3306
\* Mutant of MySqlReady: any line that says "port: 3306", as 33060 begins
MySqlReadyByPort == LogMessage({l \in Lines : l[2] # 0}, 1)
MySqlReady == LogMessage({l \in Lines : LineSignalsReady(l)}, 1)

\* a stage of a server's boot: the line it is announced with, the ports that
\* answer
Stage(says, open) == [says |-> says, open |-> open]
Quiet == <<"", 0>>
\* one server, which says so when it serves
Once(ports) == <<Stage(Quiet, {}), Stage(<<"ready", 0>>, ports)>>

-----------------------------------------------------------------------------
(* The presets.  sets: the variables the user may set through the builder, *)
(* and the guard reports; defaults: those of them with_image gives a value *)
(* to; fixed: its other variables; clears: those that setting one removes; *)
(* tells: the port whose mapped address the customizer writes into the     *)
(* spec; urls: those of the guard's addresses; hook: a post_start; boot:   *)
(* the stages of its server.                                               *)

Basic(repository, exposes, urls, wait, boot) ==
  [repositories |-> {repository}, exposes |-> exposes, urls |-> urls,
   wait |-> wait, boot |-> boot, sets |-> {}, defaults |-> {}, fixed |-> {},
   clears |-> {}, tells |-> {}, hook |-> FALSE, pair |-> FALSE]
With(preset, sets, fixed) ==
  [preset EXCEPT !.sets = sets, !.defaults = sets, !.fixed = fixed]

\* the entrypoint boots a server for the init scripts, says that it is ready,
\* stops it, and boots the durable one, which says so again
Postgres ==
  With(Basic("postgres", {5432}, {5432},
             LogMessage({<<"ready", 0>>}, 2),
             << Stage(Quiet, {}), Stage(<<"ready", 0>>, {}),
                Stage(Quiet, {}), Stage(<<"ready", 0>>, {5432}) >>),
       {"POSTGRES_USER", "POSTGRES_PASSWORD", "POSTGRES_DB"},
       {"DOCKER_PG_LLVM_DEPS"})

\* so does MySQL's, whose temporary server names port 0, and whose X Plugin
\* announces its own port before the server is ready
MySql ==
  With(Basic("mysql", {3306}, {3306}, MySqlReady,
             << Stage(<<"xplugin", 0>>, {}), Stage(<<"mysqld", 0>>, {}),
                Stage(<<"xplugin", 33060>>, {}),
                Stage(<<"mysqld", 3306>>, {3306}) >>),
       {"MYSQL_USER", "MYSQL_PASSWORD", "MYSQL_DATABASE"},
       {"MYSQL_ROOT_PASSWORD"})

MariaDb ==
  With(Basic("mariadb", {3306}, {3306},
             LogMessage({<<"mariadb", 3306>>, <<"mariadb", 33060>>}, 1),
             << Stage(<<"mariadb", 0>>, {}), Stage(Quiet, {}),
                Stage(<<"mariadb", 3306>>, {3306}) >>),
       {"MARIADB_USER", "MARIADB_PASSWORD", "MARIADB_DATABASE"},
       {"MARIADB_ROOT_PASSWORD"})

\* mongod listens, is told to initiate its replica set, and elects a primary
MongoDb ==
  [Basic("mongo", {27017}, {27017}, ListeningPort({27017}),
         << Stage(Quiet, {}), Stage(Quiet, {27017}),
            Stage(Quiet, {27017}) >>) EXCEPT !.hook = TRUE]

Kafka ==
  [With(Basic("apache/kafka", {9092}, {9092}, Plain, Once({9092})),
        {}, {"KAFKA_LISTENERS"}) EXCEPT !.tells = {9092}]
Redpanda ==
  [Basic("redpandadata/redpanda", {9092, 9093, 8081}, {9092, 8081}, Plain,
         Once({9092, 9093, 8081})) EXCEPT !.tells = {9092}]

Minio ==
  [With(Basic("minio/minio", {9000, 9001}, {9000, 9001}, Http(9000),
              Once({9000, 9001})),
        {"MINIO_ROOT_USER", "MINIO_ROOT_PASSWORD"}, {})
   EXCEPT !.repositories = {"minio/minio", "pgsty/minio"}]
RabbitMq ==
  With(Basic("rabbitmq", {5672, 15672}, {5672, 15672}, Plain,
             Once({5672, 15672})),
       {"RABBITMQ_DEFAULT_USER", "RABBITMQ_DEFAULT_PASS"}, {})
ClickHouse ==
  With(Basic("clickhouse/clickhouse-server", {8123, 9000}, {8123},
             Http(8123), Once({8123, 9000})),
       {"CLICKHOUSE_USER", "CLICKHOUSE_PASSWORD", "CLICKHOUSE_DB"}, {})
Keycloak ==
  With(Basic("keycloak/keycloak", {8080, 9000}, {8080, 9000}, Http(9000),
             Once({8080, 9000})),
       {"KC_BOOTSTRAP_ADMIN_USERNAME", "KC_BOOTSTRAP_ADMIN_PASSWORD"},
       {"KC_HEALTH_ENABLED"})
Neo4j ==
  With(Basic("neo4j", {7474, 7687}, {7474, 7687}, Plain,
             << Stage(Quiet, {7687}), Stage(<<"ready", 0>>, {7474, 7687}) >>),
       {"NEO4J_AUTH"}, {})

\* ARANGO_NO_AUTH turns authentication off by being there, so that setting a
\* password removes it
Arango ==
  [With(Basic("arangodb", {8529}, {8529}, Http(8529), Once({8529})),
        {"ARANGO_ROOT_PASSWORD"}, {"ARANGO_NO_AUTH"})
   EXCEPT !.clears = {"ARANGO_NO_AUTH"}, !.defaults = {}]
SpringCloudConfig ==
  [Basic("hyness/spring-cloud-config-server", {8888}, {8888}, Http(8888),
         Once({8888})) EXCEPT !.sets = {"SPRING_PROFILES_ACTIVE"}]

Floci(repository, port) ==
  Basic(repository, {port}, {port}, Http(port), Once({port}))

Memcached ==
  Basic("memcached", {11211}, {11211}, MemcachedResponds,
        << Stage(Quiet, {}), Stage(Quiet, {11211}) >>)
Cassandra ==
  With(Basic("cassandra", {9042}, {9042}, Plain, Once({9042})),
       {}, {"MAX_HEAP_SIZE"})
\* QuickStart: controller, broker and server in one container; taken for ready
\* when the controller answers, before the broker has joined it
Pinot ==
  Basic("apachepinot/pinot", {9000, 8000}, {9000, 8000}, Http(9000),
        << Stage(Quiet, {}), Stage(Quiet, {9000}),
           Stage(Quiet, {9000, 8000}) >>)
Elasticsearch ==
  With(Basic("elasticsearch", {9200, 9300}, {9200}, Http(9200),
             Once({9200, 9300})), {}, {"discovery.type"})
WireMock == Basic("wiremock/wiremock", {8080}, {8080}, Http(8080), Once({8080}))
Qdrant ==
  Basic("qdrant/qdrant", {6333, 6334}, {6333}, Http(6333),
        Once({6333, 6334}))
Valkey == Basic("valkey/valkey", {6379}, {6379}, Plain, Once({6379}))
Redis == Basic("redis", {6379}, {6379}, Plain, Once({6379}))

\* with_task_manager() pairs the JobManager with a second container
Flink == [Basic("flink", {8081, 6123}, {8081}, Http(8081),
                Once({8081, 6123})) EXCEPT !.pair = TRUE]

\* a container that is not of a preset
Own == [Basic("own", {80}, {}, ListeningPort({80}), Once({80}))
        EXCEPT !.sets = {"VAR"}]
\* what Container::from_checkpoint leaves of a preset: its ports
Restored(of, ports) ==
  [Own EXCEPT !.exposes = ports, !.wait = ListeningPort(ports),
              !.boot = of.boot]

Presets ==
  { Own, Postgres, MySql, MariaDb, MongoDb, Kafka, Redpanda, Minio, RabbitMq,
    ClickHouse, Keycloak, Neo4j, Arango, SpringCloudConfig, Memcached,
    Cassandra, Pinot, Elasticsearch, WireMock, Qdrant, Valkey, Redis, Flink,
    Floci("floci/floci", 4566), Floci("floci/floci-az", 4577),
    Floci("floci/floci-gcp", 4588) }

-----------------------------------------------------------------------------
(* The life of one container.                                              *)

VARIABLES
  preset, image,          \* what the user builds, and from which repository
  calls, told,            \* with_... calls; the wrapper's fields
  env,                    \* Container::env: what was pushed, by variable
  opts,                   \* the builder's other options
  supported, requested,   \* backends that run here; RIGHTSIZE_BACKEND
  providers, active,      \* the registry, and the cached choice
  pc, attempt, spec,      \* start(); the spec of its current attempt
  sandbox,                \* what the backend has made of it
  cp, from,               \* the checkpoint taken; the one this one starts from
  stage, logs, asked,     \* the server: 0 is down; rs.initiate was run
  reported,               \* it has an entry in the diagnostics registry
  tm, net                 \* Flink's TaskManager and the network of the pair

user == <<preset, image, calls, env, told, opts, from>>
backends == <<supported, requested, providers, active>>
server == <<stage, logs, asked>>
box == <<spec, sandbox, cp>>
vars == <<user, backends, pc, attempt, box, server, reported, tm, net>>

Backends == {"microsandbox", "docker"}
NoSpec == ContainerSpec(Default, <<>>, {}, FALSE, None)
Options == Setting(Set)
NoCheckpoint == [backend |-> None, spec |-> NoSpec, ran |-> NoSandbox]

Init ==
  /\ preset \in Presets
  /\ image \in preset.repositories
                \cup (IF preset = Own THEN {} ELSE {"another"})
  /\ calls = 0
  /\ env = [k \in preset.defaults \cup preset.fixed |->
              IF k \in preset.fixed THEN <<"fixed">> ELSE <<"test">>]
  /\ told = [k \in preset.sets |->
               IF k \in preset.defaults THEN "test" ELSE None]
  /\ supported \in SUBSET Backends /\ requested \in Backends \cup {None}
  /\ providers = {} /\ active = None
  /\ opts \in IF preset = Own THEN Options ELSE {Default}
  /\ pc = "building" /\ attempt = 1 /\ spec = NoSpec /\ sandbox = NoSandbox
  /\ cp = NoCheckpoint /\ from = NoCheckpoint
  /\ stage = 0 /\ logs = <<>> /\ asked = FALSE
  /\ reported = FALSE /\ tm = None /\ net = None

-----------------------------------------------------------------------------
(* The builder                                                             *)

\* the environment is a list that only grows; of its order, that of the values
\* of one variable is all that counts
Push(e, k, v) ==
  [n \in DOMAIN e \cup {k} |->
     IF n # k THEN e[n] ELSE IF k \in DOMAIN e THEN Append(e[k], v) ELSE <<v>>]
Without(e, names) == [n \in DOMAIN e \ names |-> e[n]]

\* with_username and the like: remember the value, and push it behind the
\* default
SetVariable(k, v) ==
  /\ pc = "building" /\ calls < Calls
  /\ calls' = calls + 1
  /\ env' = Push(Without(env, preset.clears), k, v)
  /\ told' = [told EXCEPT ![k] = v]
  /\ UNCHANGED <<preset, image, opts, from, backends, pc, attempt, box, server,
                 reported, tm, net>>

\* Container::remove_env
RemoveVariable(k) ==
  /\ pc = "building" /\ calls < Calls /\ image = "own"
  /\ calls' = calls + 1
  /\ env' = Without(env, {k})
  /\ told' = [told EXCEPT ![k] = None]
  /\ UNCHANGED <<preset, image, opts, from, backends, pc, attempt, box, server,
                 reported, tm, net>>

\* backends::resolve over some registered providers: the one requested if it
\* runs here, otherwise the one of the highest priority that does
Resolve(registered) ==
  LET usable == registered \cap supported
                \cap (IF requested = None THEN Backends ELSE {requested})
  IN  IF "microsandbox" \in usable THEN "microsandbox"
      ELSE IF "docker" \in usable THEN "docker" ELSE None

\* backends::active: resolve once, panic if nothing resolves
Activate(registered, l) ==
  LET b == IF active # None THEN active ELSE Resolve(registered) IN
  /\ active' = b
  /\ pc' = IF b = None THEN "panicked" ELSE l

\* FlinkContainer::with_task_manager asks for the active backend, before any
\* start() has registered a provider
WithTaskManager ==
  /\ pc = "building" /\ preset.pair /\ tm = None
  /\ Activate(providers, IF active' = "microsandbox" THEN "failed"
                         ELSE "building")
  /\ IF active' = "docker" THEN tm' = "planned" /\ net' = "open"
     ELSE UNCHANGED <<tm, net>>
  /\ UNCHANGED <<user, supported, requested, providers, attempt, box, server,
                 reported>>

\* A plain Container of the same process has started before, for which the
\* user has called register_default_backends()
StartedBefore ==
  /\ pc = "building" /\ calls = 0 /\ active = None /\ tm = None
  /\ Resolve(Backends) # None
  /\ providers' = Backends
  /\ active' = Resolve(Backends)
  /\ UNCHANGED <<user, supported, requested, pc, attempt, box, server,
                 reported, tm, net>>

-----------------------------------------------------------------------------
(* start()                                                                 *)

\* dedup_env_last_wins
LastWins(e) == [k \in DOMAIN e |-> e[k][Len(e[k])]]

\* what start() refuses before any work of the backend: a checkpoint of
\* another backend; on microsandbox, an environment that is no longer the
\* checkpoint's; no hardware isolation; options that exclude each other
Refused(backend) ==
  \/ from # NoCheckpoint /\ from.backend # backend
  \/ /\ from # NoCheckpoint /\ backend = "microsandbox"
     /\ LastWins(env) # from.spec.env
  \/ opts.isolation /\ backend # "microsandbox"
  \/ Conflicting(opts)

\* a preset's assert_compatible_with, then register_default_backends (of the
\* user, for a plain Container), the active backend and the refusals
Start ==
  /\ pc = "building"
  /\ IF image \in preset.repositories
     THEN /\ providers' = Backends
          /\ Activate(Backends, IF Refused(active') THEN "failed" ELSE "create")
     ELSE UNCHANGED <<providers, active>> /\ pc' = "failed"
  /\ UNCHANGED <<user, supported, requested, attempt, box, server, reported,
                 tm, net>>

HostPort(protocol, p) == <<protocol, p, attempt>>

\* what the customizer adds: the host address of the advertised port, in a
\* variable (Kafka) or in the command (Redpanda)
Listener == "ADVERTISED_LISTENER"
Advertised ==
  IF preset.tells = {} THEN env
  ELSE Push(env, Listener, HostPort("tcp", CHOOSE p \in preset.tells : TRUE))

Customized ==
  ContainerSpec(opts, LastWins(Advertised),
                MergePortBindings(
                  [p \in preset.exposes |-> HostPort("tcp", p)],
                  [p \in opts.udp |-> HostPort("udp", p)]),
                from # NoCheckpoint, from.spec.captured)

\* an attempt: fresh ports, the customized spec, backend.create
Create ==
  /\ pc = "create"
  /\ spec' = Customized
  /\ \/ pc' = "boot"
     \/ pc' = "failed"
  /\ UNCHANGED <<user, backends, attempt, sandbox, cp, server, reported, tm,
                 net>>

\* the image of a checkpoint is docker's commit of its sandbox
Source == IF from = NoCheckpoint THEN Image
          ELSE [env |-> from.ran.env, command |-> from.ran.command]
\* msb will not restore without the files that the snapshot has recorded, and
\* the backend not without a workload
Boots(s, files) ==
  active = "microsandbox" /\ s.restored =>
    files \subseteq s.files /\ Workload(s) # None
Made == IF active = "docker" THEN CreateBody(spec, Source)
        ELSE IF spec.restored THEN Restore(spec) ELSE Run(spec)

\* backend.start; after a port-bind conflict the next attempt
Boot ==
  /\ pc = "boot"
  /\ \/ /\ Boots(spec, from.ran.files)
        /\ pc' = "wait" /\ stage' = 1
        /\ sandbox' = Made
        /\ UNCHANGED attempt
     \/ /\ attempt < Attempts
        /\ pc' = "create" /\ attempt' = attempt + 1
        /\ UNCHANGED <<stage, sandbox>>
     \/ pc' = "failed" /\ UNCHANGED <<attempt, stage, sandbox>>
  /\ UNCHANGED <<user, backends, spec, cp, logs, asked, reported, tm, net>>

\* the sandbox, its entry in the registry and the guard are gone
Ended(l) ==
  /\ pc' = l
  /\ stage' = 0 /\ asked' = FALSE /\ logs' = <<>>
  /\ sandbox' = NoSandbox
  /\ reported' = FALSE

\* the lines that match the pattern
Matching == {i \in DOMAIN logs : logs[i] \in preset.wait.says}

\* the port of the host a probe goes to: that of the guest port, or, for one
\* that is not exposed, the same number, whoever has it
Target(p) ==
  IF GetMappedPort(sandbox, p) = {} THEN {<<"host", p, 0>>}
  ELSE GetMappedPort(sandbox, p)

\* the ports of the host behind which the server answers
Answering ==
  IF stage = 0 THEN {}
  ELSE UNION {GetMappedPort(sandbox, p) : p \in preset.boot[stage].open}

\* one probe of the wait strategy: it passes when the server is what the
\* strategy looks for, a read probe also when a forwarder holds its connections
IsReady ==
  IF preset.wait.on = "log" THEN Cardinality(Matching) >= preset.wait.times
  ELSE \A p \in preset.wait.ports : Target(p) \subseteq Answering
LooksReady ==
  \/ IsReady
  \/ /\ preset.wait.on = "listen"
     /\ \A p \in preset.wait.ports : GetMappedPort(sandbox, p) # {}

\* poll_until_ready: a probe first, the deadline only after it
Probe ==
  /\ pc = "wait"
  /\ \/ LooksReady /\ pc' = "ready"
     \/ ~IsReady /\ pc' = "unready"
  /\ UNCHANGED <<user, backends, attempt, box, server, reported, tm, net>>

Deadline ==
  /\ pc = "unready"
  /\ \/ pc' = "wait" /\ UNCHANGED <<server, sandbox, reported>>
     \/ Ended("failed")
  /\ UNCHANGED <<user, backends, attempt, spec, cp, tm, net>>

\* diagnostics::register, behind the wait and before post_start
Register ==
  /\ pc = "ready"
  /\ reported' = TRUE
  /\ pc' = IF preset.hook THEN "initiate"
           ELSE IF tm = "planned" THEN "pair" ELSE "up"
  /\ UNCHANGED <<user, backends, attempt, box, server, tm, net>>

\* MongoDB's post_start: rs.initiate until mongosh gets through, then
\* isWritablePrimary until a primary is elected; when its poll_until is out of
\* time the guard is stopped
Initiate ==
  /\ pc = "initiate"
  /\ \/ Answering # {} /\ asked' = TRUE /\ pc' = "elect"
        /\ UNCHANGED <<stage, logs, sandbox, reported>>
     \/ Ended("failed")
  /\ UNCHANGED <<user, backends, attempt, spec, cp, tm, net>>

Elected == stage = Len(preset.boot)

Elect ==
  /\ pc = "elect"
  /\ \/ Elected /\ pc' = "up" /\ UNCHANGED <<server, sandbox, reported>>
     \/ Ended("failed")
  /\ UNCHANGED <<user, backends, attempt, spec, cp, tm, net>>

\* FlinkContainer::start, behind the JobManager's: the TaskManager waits for
\* nothing (a pattern, zero times); if it does not start, the JobManager is
\* stopped, but the network is not closed
Pair ==
  /\ pc = "pair"
  /\ \/ tm' = "up" /\ pc' = "up" /\ UNCHANGED <<server, sandbox, reported>>
     \/ tm' = "failed" /\ Ended("failed")
  /\ UNCHANGED <<user, backends, attempt, spec, cp, net>>

\* the guard's stop(): the TaskManager, the container, the network
Stop ==
  /\ pc = "up"
  /\ Ended("stopped")
  /\ tm' = None /\ net' = None
  /\ UNCHANGED <<user, backends, attempt, spec, cp>>

-----------------------------------------------------------------------------
(* Checkpoint and restore                                                  *)

\* what checkpoint() returns and a restore starts from; ran: what the sandbox
\* was, of which the docker image keeps the environment and the command, and
\* the msb snapshot the files
Taken(captured) ==
  [backend |-> active, spec |-> [spec EXCEPT !.captured = captured],
   ran |-> sandbox]

\* docker: the commit leaves the container alone
Commit ==
  /\ cp' = Taken(None)
  /\ UNCHANGED <<pc, sandbox, server, reported>>

\* microsandbox: the command line is read from the guest if the spec has none,
\* which may fail; then stop, snapshot, rm, and a restore with the spec; when
\* the cycle fails the sandbox is gone, and the user drops the guard
Cycle(captured) ==
  LET reboot == [spec EXCEPT !.restored = TRUE, !.captured = captured] IN
  /\ captured # None => spec.command = None /\ stage > 0
  /\ \/ /\ Boots(reboot, spec.files)
        /\ cp' = Taken(captured)
        /\ sandbox' = Restore(reboot)
        /\ pc' = "rewait" /\ stage' = 1 /\ logs' = <<>>
        /\ UNCHANGED <<asked, reported>>
     \/ Ended("failed") /\ UNCHANGED cp

\* checkpoint() of a plain container or of Kafka's guard; a tmpfs root on
\* microsandbox is refused
Checkpoint ==
  /\ pc = "up" /\ cp = NoCheckpoint /\ from = NoCheckpoint
  /\ preset \in {Own, Kafka}
  /\ \/ active = "docker" /\ Commit
     \/ /\ active = "microsandbox" /\ spec.tmpfs = 0
        /\ \E captured \in {None, sandbox.command} : Cycle(captured)
  /\ UNCHANGED <<user, backends, attempt, spec, tm, net>>

\* checkpoint_core's wait on the rebooted workload; if it fails checkpoint()
\* returns no checkpoint, and the user drops the guard
Rewait ==
  /\ pc = "rewait"
  /\ \/ LooksReady /\ pc' = "up" /\ UNCHANGED <<sandbox, cp, server, reported>>
     \/ Ended("failed") /\ cp' = NoCheckpoint
  /\ UNCHANGED <<user, backends, attempt, spec, tm, net>>

\* Container::from_checkpoint, when the original is stopped: of the value that
\* checkpoint() returned, or in a later process of the one Checkpoint::find
\* makes of the registry's entry; the user may add the files again and join a
\* network
FromTaken(found) ==
  LET kept == IF found THEN FromReduced(Reduced(cp.spec)) ELSE cp.spec IN
  /\ pc = "stopped" /\ cp # NoCheckpoint
  /\ from' = [cp EXCEPT !.spec = kept] /\ cp' = NoCheckpoint
  /\ preset' = Restored(preset, GuestPorts(kept, "tcp")) /\ image' = "own"
  /\ calls' = 0 /\ env' = [k \in DOMAIN kept.env |-> <<kept.env[k]>>]
  /\ told' = [k \in Own.sets |->
               IF k \in DOMAIN kept.env THEN kept.env[k] ELSE None]
  /\ \E again \in {{}, cp.ran.files}, join \in Options :
       opts' = [FromCheckpoint(kept) EXCEPT !.files = again,
                  !.network = join.network, !.links = join.links]
  /\ pc' = "building" /\ attempt' = 1 /\ spec' = NoSpec
  /\ IF found THEN /\ providers' = {} /\ active' = None
                   /\ requested' \in Backends \cup {None}
     ELSE UNCHANGED <<providers, active, requested>>
  /\ UNCHANGED <<supported, sandbox, server, reported, tm, net>>

-----------------------------------------------------------------------------
(* The server in the container                                             *)

Announced(n) ==
  IF preset.boot[n].says = Quiet THEN logs
  ELSE Append(logs, preset.boot[n].says)

\* it boots on, to its last stage only once it has been told to if it must be
Advance ==
  /\ stage > 0 /\ stage < Len(preset.boot)
  /\ preset.hook /\ stage = Len(preset.boot) - 1 => asked
  /\ stage' = stage + 1
  /\ logs' = Announced(stage + 1)
  /\ UNCHANGED <<user, backends, pc, attempt, box, asked, reported, tm, net>>

Crash ==
  /\ stage > 0
  /\ stage' = 0
  /\ UNCHANGED <<user, backends, pc, attempt, box, logs, asked, reported, tm,
                 net>>

-----------------------------------------------------------------------------
Next ==
  \/ \E k \in preset.sets, v \in {"mine", "other"} : SetVariable(k, v)
  \/ \E k \in preset.sets : RemoveVariable(k)
  \/ WithTaskManager \/ StartedBefore \/ Start \/ Create \/ Boot
  \/ Probe \/ Deadline \/ Register \/ Initiate \/ Elect \/ Pair \/ Stop
  \/ Checkpoint \/ Rewait \/ \E found \in BOOLEAN : FromTaken(found)
  \/ Advance \/ Crash

Spec == Init /\ [][Next]_vars

-----------------------------------------------------------------------------
(* Correctness                                                             *)

Label ==
  {"building", "create", "boot", "wait", "unready", "ready", "initiate", "elect",
   "pair", "up", "rewait", "stopped", "failed", "panicked"}

\* The state has its types: the fields of a builder, of start() and of a guard.
TypeOK ==
  /\ pc \in Label /\ attempt \in 1..Attempts /\ calls \in 0..Calls
  /\ \A k \in DOMAIN env : Len(env[k]) \in 1..Calls + 1
  /\ DOMAIN told = preset.sets
  /\ opts \in Settings
  /\ supported \subseteq Backends /\ requested \in Backends \cup {None}
  /\ providers \in {{}, Backends} /\ active \in supported \cup {None}
  /\ \A s \in {spec, sandbox} : s.files \subseteq {"/etc/own"}
  /\ cp.backend \in Backends \cup {None} /\ from.backend \in Backends \cup {None}
  /\ stage \in 0..Len(preset.boot) /\ logs \in Seq(Lines)
  /\ asked \in BOOLEAN /\ reported \in BOOLEAN
  /\ tm \in {None, "planned", "up", "failed"} /\ net \in {None, "open"}

\* the last, durable stage, or one in which every port that was waited for is
\* answered (Pinot's broker may join later); or a server that crashed since
Serving ==
  \/ stage \in {0, Len(preset.boot)}
  \/ preset.wait.on = "port"
     /\ preset.wait.ports \subseteq preset.boot[stage].open

\* start() returns a guard only of a server that serves: never of the temporary
\* server of an init script, of a replica set without a primary, or of a
\* forwarder with nobody behind it (postgres.rs:76-81, mysql.rs:10-36,
\* mongodb.rs:92-133); but for a container that has nothing but the default
\* listening-port wait, which promises no more than an open connection.
\* The diagnostics registry shows none that is still waited for, and what has
\* failed or is stopped is gone from it, Flink's TaskManager too.
ReadyMeansServing ==
  /\ pc = "up" => Serving \/ (preset.wait.on = "listen" /\ ~preset.hook)
  /\ reported => pc \in {"initiate", "elect", "pair", "up", "rewait"}
  /\ pc \in {"failed", "stopped", "panicked"} => stage = 0 /\ tm # "up"

\* The sandbox has what the user asked for, on every route: the last word on
\* every variable, which is also what a preset's guard reports, and no
\* variable a later call excludes; the command; the ports of both protocols,
\* with the host ports of the attempt that won, which a customizer has told
\* the server; the files, the memory, the links, and published ports that can
\* be reached; on microsandbox the root disk and the offline network too, but
\* for a sandbox that comes from a snapshot (container.rs, model.rs,
\* commands.rs).  On docker a variable that is removed after from_checkpoint
\* is still in the committed image.
RunsAsAsked ==
  pc = "up" =>
    /\ \A k \in preset.sets :
         IF told[k] = None
         THEN k \in DOMAIN sandbox.env =>
                from # NoCheckpoint /\ active = "docker"
         ELSE k \in DOMAIN sandbox.env /\ sandbox.env[k] = told[k]
    /\ (\E k \in preset.sets : told[k] \in {"mine", "other"}) =>
         preset.clears \cap DOMAIN sandbox.env = {}
    /\ opts.command # None => sandbox.command = opts.command
    /\ GuestPorts(sandbox, "tcp") = preset.exposes
    /\ GuestPorts(sandbox, "udp") = opts.udp
    /\ \A p \in preset.urls : GetMappedPort(sandbox, p) = {HostPort("tcp", p)}
    /\ \A p \in opts.udp : GetMappedUdpPort(sandbox, p) = {HostPort("udp", p)}
    /\ \A p \in preset.tells : sandbox.env[Listener] = Mapped(sandbox, p)
    /\ sandbox.files = opts.files /\ sandbox.memory = opts.memory
    /\ UdpEgressPorts(opts.links) \cup {Ingress} \subseteq sandbox.net
    /\ active = "microsandbox" /\ sandbox.root # <<"snapshot">> =>
         /\ opts.disk > 0 => sandbox.root = <<"disk", opts.disk>>
         /\ opts.tmpfs > 0 => sandbox.root = <<"tmpfs", opts.tmpfs>>
         /\ opts.offline => Public \notin sandbox.net
    /\ opts.isolation => active = "microsandbox"

\* A checkpoint leaves its container as it was, and a container that starts
\* from it, at once or found in the registry by a later process, runs the
\* same command with the same variables (but for those the user has set
\* since), guest ports and memory; on microsandbox with the same files too,
\* and always on the backend that took the checkpoint (docs/checkpoints.md,
\* container.rs:180-226).
Alike(now, then) ==
  /\ now.command = then.command /\ now.memory = then.memory
  /\ \A protocol \in {"tcp", "udp"} :
       GuestPorts(now, protocol) = GuestPorts(then, protocol)
RestoresTheSame ==
  pc = "up" =>
    /\ cp # NoCheckpoint =>
         /\ Alike(sandbox, cp.ran)
         /\ sandbox.env = cp.ran.env /\ sandbox.ports = cp.ran.ports
         /\ sandbox.files = cp.ran.files /\ cp.ran.net \subseteq sandbox.net
    /\ from # NoCheckpoint =>
         /\ Alike(sandbox, from.ran) /\ active = from.backend
         /\ \A k \in DOMAIN from.ran.env :
              k \in DOMAIN told \/ sandbox.env[k] = from.ran.env[k]
         /\ active = "microsandbox" =>
              /\ sandbox.env = from.ran.env
              /\ from.ran.files \subseteq sandbox.files

\* Reuse adopts by identity: containers of one identity would have been given
\* the same sandbox on either backend, so that to adopt the one is to start
\* the other (reuse.rs:18-27).
Interchangeable ==
  pc = "building" /\ preset = Own /\ from = NoCheckpoint /\ ~opts.network =>
    \A o \in Options :
      LET Wants(x) == ContainerSpec(x, LastWins(env),
                        MergePortBindings([p \in Own.exposes |-> p],
                                          [p \in x.udp |-> p]), FALSE, None)
      IN  /\ ~o.network
          /\ Identity(Own.exposes, LastWins(env), o)
                = Identity(Own.exposes, LastWins(env), opts)
          => /\ Run(Wants(o)) = Run(Wants(opts))
             /\ CreateBody(Wants(o), Image) = CreateBody(Wants(opts), Image)
=============================================================================

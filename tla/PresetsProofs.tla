---------------------------- MODULE PresetsProofs ---------------------------
(***************************************************************************)
(* Proofs about Presets, for any bounds: what every preset's record has,   *)
(* and what therefore holds of its container, and of the one restored from *)
(* its checkpoint.                                                         *)
(***************************************************************************)
EXTENDS Presets, FiniteSetTheorems, TLAPS

-----------------------------------------------------------------------------
(* The records of the presets                                              *)

\* of whom there are checkpoints, and what is restored from them
Originals == {Own, Kafka}
RestoredOnes == {Restored(of, of.exposes) : of \in Originals}
Known == Presets \cup RestoredOnes

\* the variables and the ports of a preset do not get in each other's way
Named(p) ==
  /\ p.defaults \subseteq p.sets /\ p.fixed \cap p.sets = {}
  /\ p.clears \cap p.sets = {} /\ Listener \notin p.sets \cup p.clears
  /\ p.urls \subseteq p.exposes /\ p.tells \subseteq p.exposes
  /\ \A a, b \in p.tells : a = b
  /\ p.hook \in BOOLEAN /\ p.pair \in BOOLEAN

\* the stages up to n that the wait strategy hears of
Heard(p, n) ==
  {s \in 2..n : p.boot[s].says # Quiet /\ p.boot[s].says \in p.wait.says}
\* a log strategy does not hear enough before the last stage
HearsEnoughLast(p) ==
  Cardinality(Heard(p, Len(p.boot) - 1)) < p.wait.times
\* the ports of a strategy that asks for an answer are exposed, and one of them
\* is closed before the last stage but one
OpensLate(p) ==
  /\ p.wait.ports \subseteq p.exposes
  /\ \A s \in 1..(Len(p.boot) - 2) : ~(p.wait.ports \subseteq p.boot[s].open)
Serves(p) ==
  /\ Len(p.boot) \in Nat \ {0} /\ DOMAIN p.boot = 1..Len(p.boot)
  /\ \A s \in 1..Len(p.boot) : p.boot[s].says \in Lines \cup {Quiet}
  /\ p.wait.on = "log" => p.wait.times \in Nat /\ HearsEnoughLast(p)
  /\ p.wait.on = "port" => OpensLate(p)
  /\ p.wait.on \in {"log", "port", "listen"}

Sound(p) == Named(p) /\ Serves(p)

LEMMA HeardNothing ==
  ASSUME NEW p, NEW n, Heard(p, n) = {}, p.wait.times = 1
  PROVE  Cardinality(Heard(p, n)) < p.wait.times
BY FS_EmptySet

\* A server that says it is ready in its second and last stage, and one that
\* says nothing, with a strategy for either.
LEMMA TwoStages ==
  ASSUME NEW p, NEW first, NEW last, p.boot = <<first, last>>,
         first.says \in Lines \cup {Quiet}, last.says \in Lines \cup {Quiet},
         \/ p.wait = Plain
         \/ p.wait.on = "port" /\ p.wait.ports \subseteq p.exposes
         \/ p.wait.on = "listen"
  PROVE  Serves(p)
<1>1. Len(p.boot) = 2 /\ DOMAIN p.boot = 1..2
  OBVIOUS
<1>2. p.boot[1] = first /\ p.boot[2] = last
  OBVIOUS
<1>3. Heard(p, 1) = {}
  BY DEF Heard
<1>4. p.wait.on = "log" => p.wait = Plain /\ p.wait.times = 1
  BY DEF Plain, LogMessage
<1>5. p.wait.on = "log" => HearsEnoughLast(p)
  BY <1>1, <1>3, <1>4, HeardNothing DEF HearsEnoughLast
<1>6. p.wait.on = "port" => OpensLate(p)
  BY <1>1 DEF OpensLate, Plain, LogMessage
<1>7. p.wait.on \in {"log", "port", "listen"}
  BY DEF Plain, LogMessage
<1> QED
  BY <1>1, <1>2, <1>4, <1>5, <1>6, <1>7 DEF Serves

LEMMA LinesThere ==
  \A who \in {"ready", "mysqld", "xplugin", "mariadb"}, n \in {0, 3306, 33060} :
    <<who, n>> \in Lines
BY DEF Lines

LEMMA OnceServes ==
  ASSUME NEW p, NEW ports, p.boot = Once(ports),
         \/ p.wait = Plain
         \/ p.wait.on = "port" /\ p.wait.ports \subseteq p.exposes
         \/ p.wait.on = "listen"
  PROVE  Serves(p)
<1> DEFINE first == Stage(Quiet, {})
           last == Stage(<<"ready", 0>>, ports)
<1>1. p.boot = <<first, last>>
  BY DEF Once
<1>2. first.says = Quiet /\ first.open = {} /\ last.says = <<"ready", 0>>
  BY DEF Stage
<1>3. last.says \in Lines
  BY <1>2, LinesThere
<1> HIDE DEF first, last
<1> QED
  BY <1>1, <1>2, <1>3, TwoStages

LEMMA PresetsNamed == \A p \in Presets : Named(p)
<1>1. Named(Kafka)
  BY DEF Named, Kafka, With, Basic, Listener
<1>2. Named(Redpanda)
  BY DEF Named, Redpanda, With, Basic, Listener
<1>3. Named(Minio)
  BY DEF Named, Minio, With, Basic, Listener
<1>4. Named(RabbitMq)
  BY DEF Named, RabbitMq, With, Basic, Listener
<1>5. Named(ClickHouse)
  BY DEF Named, ClickHouse, With, Basic, Listener
<1>6. Named(Keycloak)
  BY DEF Named, Keycloak, With, Basic, Listener
<1>7. Named(Arango)
  BY DEF Named, Arango, With, Basic, Listener
<1>8. Named(SpringCloudConfig)
  BY DEF Named, SpringCloudConfig, With, Basic, Listener
<1>9. Named(Cassandra)
  BY DEF Named, Cassandra, With, Basic, Listener
<1>10. Named(Elasticsearch)
  BY DEF Named, Elasticsearch, With, Basic, Listener
<1>11. Named(WireMock)
  BY DEF Named, WireMock, With, Basic, Listener
<1>12. Named(Qdrant)
  BY DEF Named, Qdrant, With, Basic, Listener
<1>13. Named(Valkey)
  BY DEF Named, Valkey, With, Basic, Listener
<1>14. Named(Redis)
  BY DEF Named, Redis, With, Basic, Listener
<1>15. Named(Flink)
  BY DEF Named, Flink, With, Basic, Listener
<1>16. Named(Own)
  BY DEF Named, Own, With, Basic, Listener
<1>17. Named(Postgres)
  BY DEF Named, Postgres, With, Basic, Listener
<1>18. Named(MySql)
  BY DEF Named, MySql, With, Basic, Listener
<1>19. Named(MariaDb)
  BY DEF Named, MariaDb, With, Basic, Listener
<1>20. Named(MongoDb)
  BY DEF Named, MongoDb, With, Basic, Listener
<1>21. Named(Neo4j)
  BY DEF Named, Neo4j, With, Basic, Listener
<1>22. Named(Memcached)
  BY DEF Named, Memcached, With, Basic, Listener
<1>23. Named(Pinot)
  BY DEF Named, Pinot, With, Basic, Listener
<1>24. \A r, n : Named(Floci(r, n))
  BY DEF Named, Floci, With, Basic, Listener
<1> QED
  BY <1>1, <1>2, <1>3, <1>4, <1>5, <1>6, <1>7, <1>8, <1>9, <1>10, <1>11, <1>12,
     <1>13, <1>14, <1>15, <1>16, <1>17, <1>18, <1>19, <1>20, <1>21, <1>22,
     <1>23, <1>24 DEF Presets

LEMMA PresetsServe == \A p \in Presets : Serves(p)
<1>1. Serves(Kafka)
  <2>1. Kafka.boot = Once({9092}) /\ Kafka.wait = Plain
    BY DEF Kafka, With, Basic
  <2> QED
    BY <2>1, OnceServes
<1>2. Serves(Redpanda)
  BY OnceServes DEF Redpanda, Basic, Http, ListeningPort
<1>3. Serves(Minio)
  <2>1. /\ Minio.boot = Once({9000, 9001})
        /\ Minio.wait.on = "port" /\ Minio.wait.ports \subseteq Minio.exposes
    BY DEF Minio, With, Basic, Http
  <2> QED
    BY <2>1, OnceServes
<1>4. Serves(RabbitMq)
  <2>1. RabbitMq.boot = Once({5672, 15672}) /\ RabbitMq.wait = Plain
    BY DEF RabbitMq, With, Basic
  <2> QED
    BY <2>1, OnceServes
<1>5. Serves(ClickHouse)
  <2>1. /\ ClickHouse.boot = Once({8123, 9000})
        /\ ClickHouse.wait.on = "port" /\ ClickHouse.wait.ports \subseteq ClickHouse.exposes
    BY DEF ClickHouse, With, Basic, Http
  <2> QED
    BY <2>1, OnceServes
<1>6. Serves(Keycloak)
  <2>1. /\ Keycloak.boot = Once({8080, 9000})
        /\ Keycloak.wait.on = "port" /\ Keycloak.wait.ports \subseteq Keycloak.exposes
    BY DEF Keycloak, With, Basic, Http
  <2> QED
    BY <2>1, OnceServes
<1>7. Serves(Arango)
  <2>1. /\ Arango.boot = Once({8529})
        /\ Arango.wait.on = "port" /\ Arango.wait.ports \subseteq Arango.exposes
    BY DEF Arango, With, Basic, Http
  <2> QED
    BY <2>1, OnceServes
<1>8. Serves(SpringCloudConfig)
  BY OnceServes DEF SpringCloudConfig, Basic, Http, ListeningPort
<1>9. Serves(Cassandra)
  <2>1. Cassandra.boot = Once({9042}) /\ Cassandra.wait = Plain
    BY DEF Cassandra, With, Basic
  <2> QED
    BY <2>1, OnceServes
<1>10. Serves(Elasticsearch)
  <2>1. /\ Elasticsearch.boot = Once({9200, 9300})
        /\ Elasticsearch.wait.on = "port" /\ Elasticsearch.wait.ports \subseteq Elasticsearch.exposes
    BY DEF Elasticsearch, With, Basic, Http
  <2> QED
    BY <2>1, OnceServes
<1>11. Serves(WireMock)
  BY OnceServes DEF WireMock, Basic, Http, ListeningPort
<1>12. Serves(Qdrant)
  BY OnceServes DEF Qdrant, Basic, Http, ListeningPort
<1>13. Serves(Valkey)
  BY OnceServes DEF Valkey, Basic, Http, ListeningPort
<1>14. Serves(Redis)
  BY OnceServes DEF Redis, Basic, Http, ListeningPort
<1>15. Serves(Flink)
  BY OnceServes DEF Flink, Basic, Http, ListeningPort
<1>16. Serves(Own)
  BY OnceServes DEF Own, Basic, Http, ListeningPort
<1>17. \A r, n : Serves(Floci(r, n))
  BY OnceServes DEF Floci, Basic, Http
<1>18. Serves(Neo4j)
  <2> DEFINE first == Stage(Quiet, {7687})
             last == Stage(<<"ready", 0>>, {7474, 7687})
  <2>1. Neo4j.wait = Plain /\ Neo4j.boot = <<first, last>>
    BY DEF Neo4j, With, Basic
  <2>2. first.says = Quiet /\ last.says = <<"ready", 0>>
    BY DEF Stage
  <2>3. last.says \in Lines
    BY <2>2, LinesThere
  <2> HIDE DEF first, last
  <2> QED
    BY <2>1, <2>2, <2>3, TwoStages
<1>19. \A p, n : /\ p.boot = <<Stage(Quiet, {}), Stage(Quiet, {n})>>
                /\ p.wait.on = "port" /\ p.wait.ports \subseteq p.exposes
                => Serves(p)
  <2> SUFFICES ASSUME NEW p, NEW n, p.wait.on = "port",
                      p.boot = <<Stage(Quiet, {}), Stage(Quiet, {n})>>,
                      p.wait.ports \subseteq p.exposes
               PROVE  Serves(p)
    OBVIOUS
  <2>1. Stage(Quiet, {}).says = Quiet /\ Stage(Quiet, {n}).says = Quiet
    BY DEF Stage
  <2> QED
    BY <2>1, TwoStages
<1>20. Serves(Memcached)
  BY <1>19 DEF Memcached, Basic, MemcachedResponds
<1>21. Serves(Pinot)
  <2>1. /\ Pinot.wait.on = "port" /\ Pinot.wait.ports = {9000}
        /\ 9000 \in Pinot.exposes
        /\ Pinot.boot = << Stage(Quiet, {}), Stage(Quiet, {9000}),
                          Stage(Quiet, {9000, 8000}) >>
    BY DEF Pinot, Basic, Http
  <2>2. /\ Len(Pinot.boot) = 3 /\ DOMAIN Pinot.boot = 1..3
        /\ Pinot.boot[1].open = {} /\ \A s \in 1..3 : Pinot.boot[s].says = Quiet
    BY <2>1 DEF Stage
  <2>3. OpensLate(Pinot)
    BY <2>1, <2>2 DEF OpensLate
  <2> QED
    BY <2>1, <2>2, <2>3 DEF Serves
<1>22. Serves(Postgres)
  <2>1. /\ Postgres.wait = LogMessage({<<"ready", 0>>}, 2)
        /\ Postgres.boot = << Stage(Quiet, {}), Stage(<<"ready", 0>>, {}),
                             Stage(Quiet, {}), Stage(<<"ready", 0>>, {5432}) >>
    BY DEF Postgres, With, Basic
  <2>2. /\ Len(Postgres.boot) = 4 /\ DOMAIN Postgres.boot = 1..4
        /\ Postgres.boot[1].says = Quiet /\ Postgres.boot[2].says = <<"ready", 0>>
        /\ Postgres.boot[3].says = Quiet /\ Postgres.boot[4].says = <<"ready", 0>>
    BY <2>1 DEF Stage
  <2>3. Postgres.wait.on = "log" /\ Postgres.wait.times = 2
    BY <2>1 DEF LogMessage
  <2>4. 2..3 = {2, 3} /\ Heard(Postgres, 3) \subseteq {2}
    BY <2>2 DEF Heard
  <2>5. Cardinality(Heard(Postgres, 3)) \in {0, 1}
    <3>1. Heard(Postgres, 3) = {} \/ Heard(Postgres, 3) = {2}
      BY <2>4
    <3> QED
      BY <3>1, FS_EmptySet, FS_Singleton
  <2> QED
    BY <2>2, <2>3, <2>5, LinesThere DEF Serves, HearsEnoughLast
<1>23. Serves(MySql)
  <2>1. /\ MySql.wait = MySqlReady
        /\ MySql.boot = << Stage(<<"xplugin", 0>>, {}), Stage(<<"mysqld", 0>>, {}),
                          Stage(<<"xplugin", 33060>>, {}),
                          Stage(<<"mysqld", 3306>>, {3306}) >>
    BY DEF MySql, With, Basic
  <2>2. /\ Len(MySql.boot) = 4 /\ DOMAIN MySql.boot = 1..4
        /\ MySql.boot[1].says = <<"xplugin", 0>>
        /\ MySql.boot[2].says = <<"mysqld", 0>>
        /\ MySql.boot[3].says = <<"xplugin", 33060>>
        /\ MySql.boot[4].says = <<"mysqld", 3306>>
    BY <2>1 DEF Stage
  <2>3. /\ MySql.wait.on = "log" /\ MySql.wait.times = 1
        /\ \A l \in MySql.wait.says : l[1] = "mysqld" /\ l[2] = 3306
    BY <2>1 DEF MySqlReady, LogMessage, LineSignalsReady
  <2>4. 2..3 = {2, 3} /\ Heard(MySql, 3) = {}
    BY <2>2, <2>3 DEF Heard
  <2>5. \A s \in 1..4 : MySql.boot[s].says \in Lines
    <3>1. 1..4 = {1, 2, 3, 4}
      OBVIOUS
    <3> QED
      BY <2>2, <3>1, LinesThere
  <2> QED
    BY <2>2, <2>3, <2>4, <2>5, HeardNothing DEF Serves, HearsEnoughLast
<1>24. Serves(MariaDb)
  <2>1. /\ MariaDb.wait
             = LogMessage({<<"mariadb", 3306>>, <<"mariadb", 33060>>}, 1)
        /\ MariaDb.boot = << Stage(<<"mariadb", 0>>, {}), Stage(Quiet, {}),
                            Stage(<<"mariadb", 3306>>, {3306}) >>
    BY DEF MariaDb, With, Basic
  <2>2. /\ Len(MariaDb.boot) = 3 /\ DOMAIN MariaDb.boot = 1..3
        /\ MariaDb.boot[1].says = <<"mariadb", 0>>
        /\ MariaDb.boot[2].says = Quiet
        /\ MariaDb.boot[3].says = <<"mariadb", 3306>>
    BY <2>1 DEF Stage
  <2>3. MariaDb.wait.on = "log" /\ MariaDb.wait.times = 1
    BY <2>1 DEF LogMessage
  <2>4. Heard(MariaDb, 2) = {}
    BY <2>2 DEF Heard
  <2>5. \A s \in 1..3 : MariaDb.boot[s].says \in Lines \cup {Quiet}
    <3>1. 1..3 = {1, 2, 3}
      OBVIOUS
    <3> QED
      BY <2>2, <3>1, LinesThere
  <2> QED
    BY <2>2, <2>3, <2>4, <2>5, HeardNothing DEF Serves, HearsEnoughLast
<1>25. Serves(MongoDb)
  <2>1. /\ MongoDb.wait.on = "listen"
        /\ MongoDb.boot = << Stage(Quiet, {}), Stage(Quiet, {27017}),
                            Stage(Quiet, {27017}) >>
    BY DEF MongoDb, Basic, ListeningPort
  <2>2. /\ Len(MongoDb.boot) = 3 /\ DOMAIN MongoDb.boot = 1..3
        /\ \A s \in 1..3 : MongoDb.boot[s].says = Quiet
    BY <2>1 DEF Stage
  <2> QED
    BY <2>1, <2>2 DEF Serves
<1> QED
  BY <1>1, <1>2, <1>3, <1>4, <1>5, <1>6, <1>7, <1>8, <1>9, <1>10, <1>11, <1>12,
     <1>13, <1>14, <1>15, <1>16, <1>17, <1>18, <1>20, <1>21, <1>22, <1>23,
     <1>24, <1>25 DEF Presets

\* Every preset, and what is restored from it, is sound: of a preset nothing
\* but these facts and its image is used below.
LEMMA KnownSound == \A p \in Known : Sound(p)
<1>1. \A p \in Presets : Sound(p)
  BY PresetsNamed, PresetsServe DEF Sound
<1>2. ASSUME NEW of \in Originals PROVE Sound(Restored(of, of.exposes))
  <2> DEFINE p == Restored(of, of.exposes)
  <2>1. of.boot = Once(of.exposes) /\ of.exposes # {}
    <3>1. Own.boot = Once({80}) /\ Own.exposes = {80}
      BY DEF Own, Basic
    <3>2. Kafka.boot = Once({9092}) /\ Kafka.exposes = {9092}
      BY DEF Kafka, With, Basic
    <3> QED
      BY <3>1, <3>2 DEF Originals
  <2>2. /\ p.exposes = of.exposes /\ p.boot = of.boot
        /\ p.wait.on = "listen"
    BY DEF Restored, Own, Basic, ListeningPort
  <2>3. Serves(p)
    BY <2>1, <2>2, OnceServes
  <2>4. Named(p)
    BY DEF Named, Restored, Own, Basic, Listener
  <2> QED
    BY <2>3, <2>4 DEF Sound
<1> QED
  BY <1>1, <1>2 DEF Known, RestoredOnes

-----------------------------------------------------------------------------
(* The environment and the ports of a spec                                 *)

\* every variable has been pushed a list of values
Pushed(e) == \A k \in DOMAIN e : \E S : e[k] \in Seq(S) /\ e[k] # <<>>

\* The last value that is pushed wins, and no other variable changes.
LEMMA PushWins ==
  ASSUME NEW e, Pushed(e), NEW k, NEW v
  PROVE  /\ Pushed(Push(e, k, v))
         /\ LastWins(Push(e, k, v))[k] = v
         /\ \A n \in DOMAIN e \ {k} : LastWins(Push(e, k, v))[n] = LastWins(e)[n]
<1>1. DOMAIN Push(e, k, v) = DOMAIN e \cup {k}
  BY DEF Push
<1>2. /\ \E S : Push(e, k, v)[k] \in Seq(S) /\ Push(e, k, v)[k] # <<>>
      /\ Push(e, k, v)[k][Len(Push(e, k, v)[k])] = v
  <2>1. CASE k \in DOMAIN e
    <3>1. PICK S : e[k] \in Seq(S)
      BY <2>1 DEF Pushed
    <3>2. Push(e, k, v)[k] = Append(e[k], v)
      BY <2>1 DEF Push
    <3>3. e[k] \in Seq(S \cup {v}) /\ v \in S \cup {v}
      BY <3>1
    <3>4. /\ Append(e[k], v) \in Seq(S \cup {v})
          /\ Append(e[k], v) # <<>>
          /\ Append(e[k], v)[Len(Append(e[k], v))] = v
      BY <3>3
    <3> QED
      BY <3>2, <3>4
  <2>2. CASE k \notin DOMAIN e
    <3>1. Push(e, k, v)[k] = <<v>>
      BY <2>2 DEF Push
    <3>2. <<v>> \in Seq({v}) /\ <<v>> # <<>> /\ <<v>>[Len(<<v>>)] = v
      OBVIOUS
    <3> QED
      BY <3>1, <3>2
  <2> QED
    BY <2>1, <2>2
<1>3. \A n \in DOMAIN e \ {k} : Push(e, k, v)[n] = e[n]
  BY DEF Push
<1>4. Pushed(Push(e, k, v))
  BY <1>1, <1>2, <1>3 DEF Pushed
<1>5. \A n \in DOMAIN e \ {k} : LastWins(e)[n] = e[n][Len(e[n])]
  BY DEF LastWins
<1> HIDE DEF Push
<1> QED
  BY <1>1, <1>2, <1>3, <1>4, <1>5 DEF LastWins

LEMMA WithoutWins ==
  ASSUME NEW e, Pushed(e), NEW names
  PROVE  /\ Pushed(Without(e, names))
         /\ \A k \in DOMAIN e \ names : LastWins(Without(e, names))[k] = LastWins(e)[k]
BY DEF Pushed, Without, LastWins

LEMMA SetWins ==
  ASSUME NEW e, Pushed(e), NEW names, NEW k, NEW v
  PROVE  /\ Pushed(Push(Without(e, names), k, v))
         /\ LastWins(Push(Without(e, names), k, v))[k] = v
         /\ \A n \in (DOMAIN e \ names) \ {k} :
              LastWins(Push(Without(e, names), k, v))[n] = LastWins(e)[n]
<1>1. Pushed(Without(e, names))
  BY WithoutWins
<1>2. /\ Pushed(Push(Without(e, names), k, v))
      /\ LastWins(Push(Without(e, names), k, v))[k] = v
  BY <1>1, PushWins
<1>3. \A n \in (DOMAIN e \ names) \ {k} :
        LastWins(Push(Without(e, names), k, v))[n] = LastWins(e)[n]
  BY DEF LastWins, Push, Without
<1> QED
  BY <1>2, <1>3

LEMMA Domains ==
  \A e, names, k, v :
    /\ DOMAIN LastWins(e) = DOMAIN e
    /\ DOMAIN Without(e, names) = DOMAIN e \ names
    /\ DOMAIN Push(e, k, v) = DOMAIN e \cup {k}
BY DEF LastWins, Without, Push

\* What the guard and the customizer answer for the ports of a spec.
LEMMA Bindings ==
  ASSUME NEW s, NEW tcp, NEW udp, s.ports = MergePortBindings(tcp, udp)
  PROVE  /\ GuestPorts(s, "tcp") = DOMAIN tcp
         /\ GuestPorts(s, "udp") = DOMAIN udp
         /\ \A p : GetMappedPort(s, p) = IF p \in DOMAIN tcp THEN {tcp[p]} ELSE {}
         /\ \A p \in DOMAIN udp : GetMappedUdpPort(s, p) = {udp[p]}
         /\ \A p \in DOMAIN tcp : Mapped(s, p) = tcp[p]
<1>1. \A protocol, ports : \A b \in Binding(protocol, ports) :
        b.guest \in DOMAIN ports /\ b.protocol = protocol /\ b.host = ports[b.guest]
  BY DEF Binding
<1>2. ASSUME NEW protocol, NEW ports, NEW p \in DOMAIN ports
      PROVE  \E b \in Binding(protocol, ports) : b.guest = p
  <2>1. [guest |-> p, protocol |-> protocol, host |-> ports[p]]
          \in Binding(protocol, ports)
    BY DEF Binding
  <2> QED
    BY <2>1
<1>3. /\ {c \in s.ports : c.protocol = "tcp"} = Binding("tcp", tcp)
      /\ {c \in s.ports : c.protocol = "udp"} = Binding("udp", udp)
  BY <1>1 DEF MergePortBindings
<1>4. GuestPorts(s, "tcp") = DOMAIN tcp /\ GuestPorts(s, "udp") = DOMAIN udp
  <2>1. ASSUME NEW protocol, NEW ports
        PROVE  {b.guest : b \in Binding(protocol, ports)} = DOMAIN ports
    <3>1. \A p : p \in {b.guest : b \in Binding(protocol, ports)} => p \in DOMAIN ports
      BY <1>1
    <3>2. \A p \in DOMAIN ports : p \in {b.guest : b \in Binding(protocol, ports)}
      BY <1>2
    <3> QED
      BY <3>1, <3>2
  <2> QED
    BY <1>3, <2>1 DEF GuestPorts
<1>5. \A p : {c \in s.ports : c.guest = p /\ c.protocol = "tcp"}
              = {c \in Binding("tcp", tcp) : c.guest = p}
  BY <1>3
<1>6. \A p : {c \in s.ports : c.guest = p /\ c.protocol = "udp"}
              = {c \in Binding("udp", udp) : c.guest = p}
  BY <1>3
<1>7. \A p : GetMappedPort(s, p) = IF p \in DOMAIN tcp THEN {tcp[p]} ELSE {}
  <2>1. \A p : GetMappedPort(s, p) = {b.host : b \in {c \in Binding("tcp", tcp) : c.guest = p}}
    BY <1>5 DEF GetMappedPort
  <2>2. \A p \in DOMAIN tcp : GetMappedPort(s, p) = {tcp[p]}
    BY <1>1, <1>2, <2>1
  <2>3. \A p : p \notin DOMAIN tcp => GetMappedPort(s, p) = {}
    BY <1>1, <2>1
  <2> QED
    BY <2>2, <2>3
<1>8. \A p \in DOMAIN udp : GetMappedUdpPort(s, p) = {udp[p]}
  <2>1. \A p : GetMappedUdpPort(s, p) = {b.host : b \in {c \in Binding("udp", udp) : c.guest = p}}
    BY <1>6 DEF GetMappedUdpPort
  <2> QED
    BY <1>1, <1>2, <2>1
<1>9. ASSUME NEW p \in DOMAIN tcp PROVE Mapped(s, p) = tcp[p]
  <2>1. \E b \in s.ports : b.guest = p /\ b.protocol = "tcp"
    BY <1>1, <1>2 DEF MergePortBindings
  <2>2. \A b \in s.ports : b.guest = p /\ b.protocol = "tcp" => b.host = tcp[p]
    BY <1>1, <1>3
  <2> QED
    BY <1>4, <2>1, <2>2 DEF Mapped
<1> QED
  BY <1>4, <1>7, <1>8, <1>9

-----------------------------------------------------------------------------
(* The phases of a container                                               *)

\* start() has a spec, a sandbox
Running == {"wait", "unready", "ready", "initiate", "elect", "pair", "up", "rewait"}
Later == Running \cup {"boot"}
Begun == Later \cup {"create"}

Build ==
  \/ \E k \in preset.sets, v \in {"mine", "other"} : SetVariable(k, v)
  \/ \E k \in preset.sets : RemoveVariable(k)
  \/ WithTaskManager \/ StartedBefore \/ \E found \in BOOLEAN : FromTaken(found)
Late ==
  Probe \/ Deadline \/ Register \/ Initiate \/ Elect \/ Pair \/ Stop \/ Rewait
  \/ Advance \/ Crash

LEMMA Steps ==
  [Next]_vars <=> Build \/ Start \/ Create \/ Boot \/ Checkpoint \/ Late
                  \/ UNCHANGED vars
BY DEF Next, Build, Late

LEMMA BuildFrame ==
  ASSUME Build
  PROVE  pc \notin Begun /\ pc' \in {"building", "failed", "panicked"}
<1> USE DEF Begun, Later, Running
<1>1. CASE \E k \in preset.sets, v \in {"mine", "other"} : SetVariable(k, v)
  BY <1>1 DEF SetVariable
<1>2. CASE \E k \in preset.sets : RemoveVariable(k)
  BY <1>2 DEF RemoveVariable
<1>3. CASE WithTaskManager
  BY <1>3 DEF WithTaskManager, Activate
<1>4. CASE StartedBefore
  BY <1>4 DEF StartedBefore
<1>5. CASE \E found \in BOOLEAN : FromTaken(found)
  BY <1>5 DEF FromTaken
<1> QED
  BY <1>1, <1>2, <1>3, <1>4, <1>5 DEF Build

\* Nobody writes to what the user has configured once start() has begun, nor
\* to the sandbox while it runs, but a checkpoint.
LEMMA LateFrame ==
  ASSUME Late
  PROVE  /\ UNCHANGED <<user, backends, attempt, spec>>
         /\ pc' \in Running => pc \in Running /\ UNCHANGED <<sandbox, cp>>
         /\ pc' = pc \/ pc' \in Running \cup {"failed", "stopped"}
         /\ pc \in {"up", "rewait", "stopped", "failed"} =>
              pc' \in {"up", "rewait", "stopped", "failed"}
         /\ cp' \in {cp, NoCheckpoint}
<1> USE DEF user, backends, box, server, Ended, Running
<1>1. CASE Probe
  BY <1>1 DEF Probe
<1>2. CASE Deadline
  BY <1>2 DEF Deadline
<1>3. CASE Register
  BY <1>3 DEF Register
<1>4. CASE Initiate
  BY <1>4 DEF Initiate
<1>5. CASE Elect
  BY <1>5 DEF Elect
<1>6. CASE Pair
  BY <1>6 DEF Pair
<1>7. CASE Stop
  BY <1>7 DEF Stop
<1>8. CASE Rewait
  BY <1>8 DEF Rewait
<1>9. CASE Advance
  BY <1>9 DEF Advance
<1>10. CASE Crash
  BY <1>10 DEF Crash
<1> QED
  BY <1>1, <1>2, <1>3, <1>4, <1>5, <1>6, <1>7, <1>8, <1>9, <1>10 DEF Late

-----------------------------------------------------------------------------
(* What the user has configured                                            *)

\* A checkpoint c of a container with these TCP ports: its spec is what the
\* sandbox ran.
Faithful(c, ports) ==
  /\ c = [backend |-> c.backend, spec |-> c.spec, ran |-> c.ran]
  /\ c.backend \in Backends
  /\ c.ran.env = c.spec.env /\ c.ran.memory = c.spec.memory
  /\ c.spec.command \in {None, c.ran.command}
  /\ c.spec.captured \in {None, c.ran.command}
  /\ GuestPorts(c.spec, "tcp") = ports /\ GuestPorts(c.ran, "tcp") = ports
  /\ GuestPorts(c.spec, "udp") = GuestPorts(c.ran, "udp")
  /\ GuestPorts(c.spec, "udp") \in {{}, {80}}
  /\ c.spec.command \in {None, "mine"} /\ c.spec.memory \in {0, 1}
  /\ c.ran.files \in {{}, {"/etc/own"}}
  /\ "VAR" \in DOMAIN c.spec.env => c.spec.env["VAR"] # None

\* what the builder's fields and its environment have to do with each other
EnvInv ==
  /\ Pushed(env) /\ DOMAIN told = preset.sets
  /\ \A k \in preset.sets :
       IF told[k] = None THEN k \notin DOMAIN env
       ELSE k \in DOMAIN env /\ LastWins(env)[k] = told[k]
  /\ (\E k \in preset.sets : told[k] \in {"mine", "other"}) =>
       preset.clears \cap DOMAIN env = {}
  /\ from = NoCheckpoint =>
       \A k \in DOMAIN env : LastWins(env)[k] \in {"test", "fixed", "mine", "other"}
  /\ from # NoCheckpoint =>
       \A k \in DOMAIN from.spec.env \ preset.sets :
         k \in DOMAIN env /\ LastWins(env)[k] = from.spec.env[k]

\* and a container that starts from a checkpoint with it
UserInv ==
  /\ opts \in Settings
  /\ from = NoCheckpoint => preset \in Presets
  /\ from # NoCheckpoint =>
       /\ preset \in RestoredOnes /\ Faithful(from, preset.exposes)
       /\ opts.command = from.spec.command /\ opts.memory = from.spec.memory
       /\ opts.udp = GuestPorts(from.spec, "udp")

CpInv ==
  cp # NoCheckpoint =>
    /\ preset \in Originals /\ from = NoCheckpoint
    /\ pc \in {"up", "rewait", "stopped", "failed"}
    /\ Faithful(cp, preset.exposes)

\* What Checkpoint::find makes of the registry's entry is as good.
LEMMA Found ==
  ASSUME NEW c, NEW ports, Faithful(c, ports)
  PROVE  LET kept == FromReduced(Reduced(c.spec)) IN
         /\ Faithful([c EXCEPT !.spec = kept], ports)
         /\ kept.env = c.spec.env
<1> DEFINE kept == FromReduced(Reduced(c.spec))
           tcp == [p \in GuestPorts(c.spec, "tcp") |-> 0]
           udp == [p \in GuestPorts(c.spec, "udp") |-> 0]
<1>1. /\ kept.env = c.spec.env /\ kept.command = c.spec.command
      /\ kept.memory = c.spec.memory /\ kept.captured = c.spec.captured
      /\ kept.ports = MergePortBindings(tcp, udp)
  BY DEF FromReduced, Reduced, ContainerSpec, Default
<1>2. /\ GuestPorts(kept, "tcp") = GuestPorts(c.spec, "tcp")
      /\ GuestPorts(kept, "udp") = GuestPorts(c.spec, "udp")
  BY <1>1, Bindings
<1>3. [c EXCEPT !.spec = kept] = [backend |-> c.backend, spec |-> kept, ran |-> c.ran]
  BY DEF Faithful
<1> HIDE DEF kept
<1> QED
  BY <1>1, <1>2, <1>3 DEF Faithful, kept

LEMMA RestoredFields ==
  \A p \in RestoredOnes :
    /\ p.sets = {"VAR"} /\ p.clears = {} /\ p.tells = {} /\ p.urls = {}
    /\ p.hook = FALSE /\ p.pair = FALSE
<1> TAKE p \in RestoredOnes
<1>1. PICK of \in Originals : p = Restored(of, of.exposes)
  BY DEF RestoredOnes
<1> QED
  BY <1>1 DEF Restored, Own, Basic

\* The steps that leave the builder alone.
LEMMA BuilderKept ==
  ASSUME WithTaskManager \/ StartedBefore \/ Start \/ Create \/ Boot
         \/ Checkpoint \/ Late \/ UNCHANGED vars
  PROVE  UNCHANGED user
<1>1. CASE Late
  BY <1>1, LateFrame
<1>2. CASE UNCHANGED vars
  BY <1>2 DEF vars
<1> QED
  BY <1>1, <1>2 DEF WithTaskManager, StartedBefore, Start, Create, Boot, Checkpoint

LEMMA EnvStep ==
  ASSUME UserInv, EnvInv, CpInv, [Next]_vars
  PROVE  EnvInv'
<1> DEFINE Words == {"test", "fixed", "mine", "other"}
<1>1. Sound(preset)
  BY KnownSound DEF Known, UserInv
<1>6. Pushed(env)
  BY DEF EnvInv
<1>2. ASSUME NEW k \in preset.sets, NEW v \in {"mine", "other"}, SetVariable(k, v)
      PROVE  EnvInv'
  <2> DEFINE new == LastWins(env')
  <2>1. /\ env' = Push(Without(env, preset.clears), k, v)
        /\ told' = [told EXCEPT ![k] = v] /\ UNCHANGED <<preset, from>>
    BY <1>2 DEF SetVariable
  <2>2. /\ Pushed(env') /\ new[k] = v
        /\ \A n \in (DOMAIN env \ preset.clears) \ {k} : new[n] = LastWins(env)[n]
    BY <1>6, <2>1, SetWins
  <2>3. DOMAIN env' = (DOMAIN env \ preset.clears) \cup {k}
    BY <2>1 DEF Push, Without
  <2>5. k \notin preset.clears /\ preset.sets \cap preset.clears = {}
    BY <1>1 DEF Sound, Named
  <2>7. told'[k] = v /\ v # None /\ \A n \in preset.sets \ {k} : told'[n] = told[n]
    BY <2>1 DEF EnvInv, None
  <2>8. /\ DOMAIN told' = preset.sets
        /\ \A n \in preset.sets :
             IF told'[n] = None THEN n \notin DOMAIN env'
             ELSE n \in DOMAIN env' /\ new[n] = told'[n]
    BY <2>1, <2>2, <2>3, <2>5, <2>7 DEF EnvInv
  <2>9. preset.clears \cap DOMAIN env' = {}
    BY <2>3, <2>5
  <2>10. from = NoCheckpoint => \A n \in DOMAIN env' : new[n] \in Words
    BY <2>2, <2>3 DEF EnvInv
  <2>11. from # NoCheckpoint =>
           \A n \in DOMAIN from.spec.env \ preset.sets :
             n \in DOMAIN env' /\ new[n] = from.spec.env[n]
    BY <2>2, <2>3, RestoredFields DEF EnvInv, UserInv
  <2> QED
    BY <2>1, <2>2, <2>8, <2>9, <2>10, <2>11 DEF EnvInv
<1>3. ASSUME NEW k \in preset.sets, RemoveVariable(k)
      PROVE  EnvInv'
  <2>1. /\ env' = Without(env, {k}) /\ told' = [told EXCEPT ![k] = None]
        /\ UNCHANGED <<preset, from>>
    BY <1>3 DEF RemoveVariable
  <2>2. /\ Pushed(env') /\ DOMAIN env' = DOMAIN env \ {k}
        /\ \A n \in DOMAIN env \ {k} : LastWins(env')[n] = LastWins(env)[n]
    <3>1. DOMAIN env' = DOMAIN env \ {k}
      BY <2>1 DEF Without
    <3> QED
      BY <1>6, <2>1, <3>1, WithoutWins
  <2>3. /\ DOMAIN told' = preset.sets /\ told'[k] = None
        /\ \A n \in preset.sets \ {k} : told'[n] = told[n]
    BY <2>1 DEF EnvInv
  <2>4. \A n \in preset.sets :
          IF told'[n] = None THEN n \notin DOMAIN env'
          ELSE n \in DOMAIN env' /\ LastWins(env')[n] = told'[n]
    BY <2>2, <2>3 DEF EnvInv
  <2>5. (\E n \in preset.sets : told'[n] \in {"mine", "other"}) =>
          preset.clears \cap DOMAIN env' = {}
    BY <2>2, <2>3 DEF EnvInv, None
  <2>6. from = NoCheckpoint => \A n \in DOMAIN env' : LastWins(env')[n] \in Words
    BY <2>2 DEF EnvInv
  <2>7. from # NoCheckpoint =>
          \A n \in DOMAIN from.spec.env \ preset.sets :
            n \in DOMAIN env' /\ LastWins(env')[n] = from.spec.env[n]
    BY <2>2 DEF EnvInv
  <2> QED
    BY <2>1, <2>2, <2>3, <2>4, <2>5, <2>6, <2>7 DEF EnvInv
<1>4. ASSUME NEW found \in BOOLEAN, FromTaken(found)
      PROVE  EnvInv'
  <2> DEFINE kept == IF found THEN FromReduced(Reduced(cp.spec)) ELSE cp.spec
             known == kept.env
  <2>1. /\ cp # NoCheckpoint /\ from' = [cp EXCEPT !.spec = kept]
        /\ preset' = Restored(preset, GuestPorts(kept, "tcp"))
        /\ env' = [k \in DOMAIN known |-> <<known[k]>>]
        /\ told' = [k \in Own.sets |->
                      IF k \in DOMAIN known THEN known[k] ELSE None]
    BY <1>4 DEF FromTaken
  <2>2. Faithful(cp, preset.exposes) /\ preset \in Originals
    BY <2>1 DEF CpInv
  <2>3. Faithful(from', preset.exposes)
    BY <2>1, <2>2, Found DEF Faithful
  <2>4. from'.spec = kept /\ from' # NoCheckpoint
    BY <2>1, <2>2, <2>3 DEF Faithful, NoCheckpoint, Backends, None
  <2>5. preset' \in RestoredOnes
    BY <2>1, <2>2, <2>3, <2>4 DEF Faithful, RestoredOnes
  <2>6. preset'.sets = {"VAR"} /\ preset'.clears = {} /\ Own.sets = {"VAR"}
    BY <2>5, RestoredFields DEF Own
  <2>7. Pushed(env') /\ LastWins(env') = [k \in DOMAIN known |-> known[k]]
    <3>1. \A x : <<x>> \in Seq({x}) /\ <<x>> # <<>> /\ <<x>>[Len(<<x>>)] = x
      OBVIOUS
    <3> QED
      BY <2>1, <3>1 DEF Pushed, LastWins
  <2>8. "VAR" \in DOMAIN known => known["VAR"] # None
    BY <2>3, <2>4 DEF Faithful
  <2> HIDE DEF kept
  <2> QED
    BY <2>1, <2>4, <2>6, <2>7, <2>8 DEF EnvInv
<1>5. CASE UNCHANGED user
  BY <1>5 DEF user, EnvInv
<1> QED
  BY <1>2, <1>3, <1>4, <1>5, BuilderKept, Steps DEF Build

LEMMA UserStep ==
  ASSUME UserInv, CpInv, [Next]_vars
  PROVE  UserInv'
<1>1. CASE \E k \in preset.sets, v \in {"mine", "other"} : SetVariable(k, v)
  BY <1>1 DEF SetVariable, UserInv
<1>2. CASE \E k \in preset.sets : RemoveVariable(k)
  BY <1>2 DEF RemoveVariable, UserInv
<1>3. ASSUME NEW found \in BOOLEAN, FromTaken(found) PROVE UserInv'
  <2> DEFINE kept == IF found THEN FromReduced(Reduced(cp.spec)) ELSE cp.spec
  <2>1. /\ cp # NoCheckpoint /\ from' = [cp EXCEPT !.spec = kept]
        /\ preset' = Restored(preset, GuestPorts(kept, "tcp"))
    BY <1>3 DEF FromTaken
  <2>2. PICK again \in {{}, cp.ran.files}, join \in Options :
          opts' = [FromCheckpoint(kept) EXCEPT !.files = again,
                     !.network = join.network, !.links = join.links]
    BY <1>3 DEF FromTaken
  <2>3. Faithful(cp, preset.exposes) /\ preset \in Originals
    BY <2>1 DEF CpInv
  <2>4. Faithful(from', preset.exposes)
    BY <2>1, <2>3, Found DEF Faithful
  <2>5. from'.spec = kept /\ from' # NoCheckpoint
    BY <2>1, <2>3, <2>4 DEF Faithful, NoCheckpoint, Backends, None
  <2>6. preset' = Restored(preset, preset.exposes) /\ preset'.exposes = preset.exposes
    <3>1. GuestPorts(kept, "tcp") = preset.exposes
      BY <2>4, <2>5 DEF Faithful
    <3>2. \A of, ports : Restored(of, ports).exposes = ports
      BY DEF Restored, Own, Basic
    <3> QED
      BY <2>1, <3>1, <3>2
  <2>7. preset' \in RestoredOnes
    BY <2>3, <2>6 DEF RestoredOnes
  <2> HIDE DEF kept
  <2>8. /\ opts'.command = kept.command /\ opts'.memory = kept.memory
        /\ opts'.udp = GuestPorts(kept, "udp")
    BY <2>2 DEF FromCheckpoint, Default
  <2>9. opts' \in Settings
    <3>1. join \in Settings
      BY DEF Options, Setting
    <3>2. /\ join.network \in BOOLEAN /\ (join.links # {} => join.network)
          /\ join.links \in {{}, {<<"tcp", 5400>>, <<"udp", 5300>>}}
      BY <3>1 DEF Settings
    <3>3. /\ again \in {{}, {"/etc/own"}} /\ kept.command \in {None, "mine"}
          /\ kept.memory \in {0, 1} /\ GuestPorts(kept, "udp") \in {{}, {80}}
      BY <2>3, <2>4, <2>5 DEF Faithful
    <3>4. opts' = [command |-> kept.command, memory |-> kept.memory, disk |-> 0,
                   tmpfs |-> 0, offline |-> FALSE, files |-> again,
                   udp |-> GuestPorts(kept, "udp"), network |-> join.network,
                   links |-> join.links, isolation |-> FALSE]
      BY <2>2 DEF FromCheckpoint, Default
    <3> QED
      BY <3>2, <3>3, <3>4 DEF Settings
  <2> QED
    BY <2>4, <2>5, <2>6, <2>7, <2>8, <2>9 DEF UserInv
<1>4. CASE UNCHANGED user
  BY <1>4 DEF user, UserInv
<1> QED
  BY <1>1, <1>2, <1>3, <1>4, BuilderKept, Steps DEF Build

-----------------------------------------------------------------------------
(* From start() to the sandbox                                             *)

StartInv ==
  /\ active \in Backends \cup {None}
  /\ pc \in Begun => active \in Backends /\ ~Refused(active)
SpecInv == pc \in Later => spec = Customized
\* the spec of a sandbox that is back from a snapshot
Rebooted(captured) == [spec EXCEPT !.restored = TRUE, !.captured = captured]
BoxInv ==
  pc \in Running =>
    \/ sandbox = Made /\ Boots(spec, from.ran.files)
    \/ /\ active = "microsandbox" /\ cp # NoCheckpoint
       /\ \E captured : sandbox = Restore(Rebooted(captured))

\* The steps that leave all that alone.
LEMMA Kept ==
  ASSUME UNCHANGED <<user, backends, attempt, spec>>
  PROVE  /\ Customized' = Customized /\ Made' = Made
         /\ Boots(spec, from.ran.files)' = Boots(spec, from.ran.files)
         /\ Refused(active)' = Refused(active)
         /\ \A captured : Rebooted(captured)' = Rebooted(captured)
BY DEF user, backends, Customized, Advertised, HostPort, Made, Source, Boots,
       Refused, Rebooted

LEMMA StartStep ==
  ASSUME StartInv, [Next]_vars
  PROVE  StartInv'
<1>8. \A registered : Resolve(registered) \in Backends \cup {None}
  BY DEF Resolve, Backends
<1>1. CASE Build
  <2> SUFFICES active' \in Backends \cup {None}
    BY <1>1, BuildFrame DEF StartInv, Begun, Later, Running
  <2>1. CASE \E k \in preset.sets, v \in {"mine", "other"} : SetVariable(k, v)
    BY <2>1 DEF SetVariable, backends, StartInv
  <2>2. CASE \E k \in preset.sets : RemoveVariable(k)
    BY <2>2 DEF RemoveVariable, backends, StartInv
  <2>3. CASE WithTaskManager \/ StartedBefore
    BY <1>8, <2>3 DEF WithTaskManager, StartedBefore, Activate, StartInv
  <2>4. CASE \E found \in BOOLEAN : FromTaken(found)
    BY <2>4 DEF FromTaken, StartInv
  <2> QED
    BY <1>1, <2>1, <2>2, <2>3, <2>4 DEF Build
<1>2. CASE Start
  <2>1. active' \in Backends \cup {None}
    BY <1>2, <1>8 DEF Start, Activate, StartInv
  <2>2. pc' \in Begun => active' # None /\ ~Refused(active')
    BY <1>2 DEF Start, Activate, Begun, Later, Running
  <2>3. Refused(active)' = Refused(active')
    BY <1>2 DEF Start, Refused, user
  <2> QED
    BY <2>1, <2>2, <2>3 DEF StartInv
<1>3. CASE UNCHANGED <<user, backends, attempt, spec>> /\ (pc' \in Begun => pc \in Begun)
  BY <1>3, Kept DEF StartInv, backends
<1>4. ASSUME Create \/ Boot, pc \in Begun PROVE StartInv'
  BY <1>4 DEF StartInv, Create, Boot, Refused, user, backends
<1>5. CASE Late
  BY <1>3, <1>5, LateFrame DEF Begun, Later
<1>6. CASE Checkpoint
  BY <1>3, <1>6 DEF Checkpoint, Begun, Later, Running
<1>7. CASE UNCHANGED vars
  BY <1>3, <1>7 DEF vars, box
<1> QED
  BY <1>1, <1>2, <1>4, <1>5, <1>6, <1>7, Steps DEF Create, Boot, Begun, Later

LEMMA CustomizedKept == UNCHANGED <<user, attempt>> => Customized' = Customized
BY DEF user, Customized, Advertised, HostPort

LEMMA SpecStep ==
  ASSUME SpecInv, [Next]_vars
  PROVE  SpecInv'
<1> USE DEF Begun, Later, Running
<1>1. CASE Build
  BY <1>1, BuildFrame DEF SpecInv
<1>2. CASE Start
  BY <1>2 DEF Start, Activate, SpecInv
<1>3. CASE Create
  BY <1>3, CustomizedKept DEF Create, SpecInv
<1>4. ASSUME UNCHANGED <<user, attempt, spec>>, pc' \in Later => pc \in Later
      PROVE  SpecInv'
  BY <1>4, CustomizedKept DEF SpecInv
<1>5. CASE Boot
  <2>1. pc' \in Later => pc' = "wait" /\ pc = "boot" /\ UNCHANGED attempt
    BY <1>5 DEF Boot
  <2> QED
    BY <1>5, <2>1, CustomizedKept DEF Boot, SpecInv
<1>6. CASE Checkpoint
  BY <1>4, <1>6 DEF Checkpoint
<1>7. CASE Late
  BY <1>4, <1>7, LateFrame
<1>8. CASE UNCHANGED vars
  BY <1>4, <1>8 DEF vars, box
<1> QED
  BY <1>1, <1>2, <1>3, <1>5, <1>6, <1>7, <1>8, Steps

\* A checkpoint is taken of a sandbox that the backend has made of the spec,
\* and leaves it alone on docker, on microsandbox it boots it again.
LEMMA CheckpointForm ==
  ASSUME Checkpoint, StartInv, BoxInv
  PROVE  /\ pc = "up" /\ cp = NoCheckpoint /\ sandbox = Made
         /\ \/ /\ active = "docker" /\ pc' = "up" /\ cp' = Taken(None)
               /\ UNCHANGED <<sandbox, reported, server>>
            \/ /\ active = "microsandbox" /\ pc' = "rewait"
               /\ \E captured \in {None, sandbox.command} :
                    /\ captured # None => spec.command = None
                    /\ Boots(Rebooted(captured), spec.files)
                    /\ cp' = Taken(captured)
                    /\ sandbox' = Restore(Rebooted(captured))
            \/ pc' = "failed" /\ cp' = cp
         /\ \/ cp' # NoCheckpoint
            \/ pc' = "failed" /\ cp' = cp
<1>1. pc = "up" /\ cp = NoCheckpoint
  BY DEF Checkpoint
<1>2. sandbox = Made
  BY <1>1 DEF BoxInv, Running
<1>3. active # None
  BY <1>1 DEF StartInv, Begun, Later, Running, Backends, None
<1>4. \A captured : Taken(captured) # NoCheckpoint
  BY <1>3 DEF Taken, NoCheckpoint
<1>5. CASE active = "docker" /\ Commit
  BY <1>1, <1>2, <1>4, <1>5 DEF Commit
<1>6. CASE /\ active = "microsandbox"
           /\ \E captured \in {None, sandbox.command} : Cycle(captured)
  <2>1. PICK captured \in {None, sandbox.command} : Cycle(captured)
    BY <1>6
  <2>2. CASE cp' = cp /\ pc' = "failed"
    BY <1>1, <1>2, <2>2
  <2>3. CASE ~(cp' = cp /\ pc' = "failed")
    <3>1. /\ captured # None => spec.command = None
          /\ Boots(Rebooted(captured), spec.files)
          /\ cp' = Taken(captured) /\ pc' = "rewait"
          /\ sandbox' = Restore(Rebooted(captured))
      BY <2>1, <2>3 DEF Cycle, Rebooted, Ended
    <3> QED
      BY <1>1, <1>2, <1>4, <1>6, <3>1
  <2> QED
    BY <2>2, <2>3
<1> QED
  BY <1>5, <1>6 DEF Checkpoint

LEMMA BoxStep ==
  ASSUME StartInv, BoxInv, [Next]_vars
  PROVE  BoxInv'
<1> USE DEF Begun, Later, Running
<1>1. CASE Build
  BY <1>1, BuildFrame DEF BoxInv
<1>2. CASE Start \/ Create
  BY <1>2 DEF Start, Activate, Create, BoxInv
<1>3. CASE Boot
  <2>1. pc' \in Running => /\ sandbox' = Made /\ Boots(spec, from.ran.files)
                           /\ UNCHANGED <<user, backends, attempt, spec>>
    BY <1>3 DEF Boot
  <2> QED
    BY <2>1, Kept DEF BoxInv
<1>4. CASE Checkpoint
  <2>1. UNCHANGED <<user, backends, attempt, spec>>
    BY <1>4 DEF Checkpoint
  <2>2. (cp' = cp /\ pc' = "failed") \/ cp' # NoCheckpoint
    BY <1>4, CheckpointForm
  <2>3. CASE active = "docker" /\ pc' = "up" /\ UNCHANGED sandbox
    BY <1>4, <2>1, <2>3, Kept, CheckpointForm DEF BoxInv
  <2>4. CASE active = "microsandbox" /\ cp' # NoCheckpoint
             /\ \E captured : sandbox' = Restore(Rebooted(captured))
    BY <2>1, <2>4, Kept DEF BoxInv, backends
  <2> QED
    BY <1>4, <2>2, <2>3, <2>4, CheckpointForm DEF BoxInv
<1>5. CASE Late
  <2>1. pc' \in Running => pc \in Running /\ UNCHANGED <<sandbox, cp>>
    BY <1>5, LateFrame
  <2>2. UNCHANGED <<user, backends, attempt, spec>>
    BY <1>5, LateFrame
  <2> QED
    BY <2>1, <2>2, Kept DEF BoxInv, backends
<1>6. CASE UNCHANGED vars
  BY <1>6, Kept DEF vars, box, backends, BoxInv
<1> QED
  BY <1>1, <1>2, <1>3, <1>4, <1>5, <1>6, Steps

LEMMA SpecFields ==
  /\ Customized.env = LastWins(Advertised)
  /\ Customized.ports
       = MergePortBindings([p \in preset.exposes |-> HostPort("tcp", p)],
                           [p \in opts.udp |-> HostPort("udp", p)])
  /\ Customized.command = opts.command /\ Customized.files = opts.files
  /\ Customized.memory = opts.memory /\ Customized.disk = opts.disk
  /\ Customized.tmpfs = opts.tmpfs /\ Customized.offline = opts.offline
  /\ Customized.egress = UdpEgressPorts(opts.links)
  /\ Customized.restored = (from # NoCheckpoint)
  /\ Customized.captured = from.spec.captured
BY DEF Customized, ContainerSpec

\* An environment over none is itself.
LEMMA OverNothing == \A e : Over(LastWins(e), Image.env) = LastWins(e)
BY DEF Over, LastWins, Image

\* What a sandbox is made of, before there are checkpoints.
LEMMA FirstMade ==
  ASSUME spec = Customized, from = NoCheckpoint, active \in Backends
  PROVE  /\ Made.env = spec.env /\ Made.ports = spec.ports
         /\ Made.files = spec.files /\ Made.memory = spec.memory
         /\ Made.command = IF spec.command = None THEN "entrypoint" ELSE spec.command
         /\ active = "microsandbox" => Made = Run(spec)
<1>1. spec.restored = FALSE
  BY SpecFields
<1>2. CASE active = "microsandbox"
  BY <1>1, <1>2 DEF Made, Run, Image
<1>3. CASE active = "docker"
  <2>1. Made = CreateBody(spec, Image)
    BY <1>3 DEF Made, Source
  <2>2. Over(spec.env, Image.env) = spec.env
    BY SpecFields, OverNothing
  <2> QED
    BY <1>3, <2>1, <2>2 DEF CreateBody, Image
<1> QED
  BY <1>2, <1>3 DEF Backends

\* What a workload is revived with.
LEMMA RebootedFields ==
  ASSUME spec = Customized, NEW captured
  PROVE  /\ Rebooted(captured)
              = [spec EXCEPT !.restored = TRUE, !.captured = captured]
         /\ Rebooted(captured).captured = captured
         /\ Rebooted(captured).restored = TRUE
         /\ Rebooted(captured).env = spec.env /\ Rebooted(captured).ports = spec.ports
         /\ Rebooted(captured).command = spec.command
         /\ Rebooted(captured).files = spec.files
         /\ Rebooted(captured).memory = spec.memory
         /\ Rebooted(captured).egress = spec.egress
BY DEF Rebooted, Customized, ContainerSpec

\* What the customizer adds to the environment, and that it adds nothing else.
LEMMA AdvertisedWins ==
  ASSUME Pushed(env), Named(preset)
  PROVE  /\ \A k \in DOMAIN LastWins(Advertised) \ {Listener} : k \in DOMAIN env
         /\ \A k \in DOMAIN env \ {Listener} :
              /\ k \in DOMAIN LastWins(Advertised)
              /\ LastWins(Advertised)[k] = LastWins(env)[k]
         /\ preset.tells = {} => LastWins(Advertised) = LastWins(env)
         /\ \A p \in preset.tells :
              /\ Listener \in DOMAIN LastWins(Advertised)
              /\ LastWins(Advertised)[Listener] = HostPort("tcp", p)
<1>1. CASE preset.tells = {}
  BY <1>1, Domains DEF Advertised
<1>2. ASSUME NEW p \in preset.tells
      PROVE  /\ Advertised = Push(env, Listener, HostPort("tcp", p))
             /\ DOMAIN LastWins(Advertised) = DOMAIN env \cup {Listener}
             /\ LastWins(Advertised)[Listener] = HostPort("tcp", p)
             /\ \A k \in DOMAIN env \ {Listener} :
                  LastWins(Advertised)[k] = LastWins(env)[k]
  <2>1. (CHOOSE q \in preset.tells : TRUE) = p
    BY DEF Named
  <2>2. Advertised = Push(env, Listener, HostPort("tcp", p))
    BY <2>1 DEF Advertised
  <2>3. DOMAIN LastWins(Advertised) = DOMAIN env \cup {Listener}
    <3>1. DOMAIN LastWins(Advertised) = DOMAIN Advertised
      BY Domains
    <3>2. DOMAIN Push(env, Listener, HostPort("tcp", p)) = DOMAIN env \cup {Listener}
      BY Domains
    <3> QED
      BY <2>2, <3>1, <3>2
  <2>4. /\ LastWins(Advertised)[Listener] = HostPort("tcp", p)
        /\ \A k \in DOMAIN env \ {Listener} :
             LastWins(Advertised)[k] = LastWins(env)[k]
    BY <2>2, PushWins
  <2> QED
    BY <2>2, <2>3, <2>4
<1> QED
  BY <1>1, <1>2

\* What the guard answers for the ports that an attempt binds.
LEMMA PortsOf ==
  ASSUME NEW s, s.ports = Customized.ports
  PROVE  /\ GuestPorts(s, "tcp") = preset.exposes /\ GuestPorts(s, "udp") = opts.udp
         /\ \A p : GetMappedPort(s, p) = IF p \in preset.exposes
                                        THEN {HostPort("tcp", p)} ELSE {}
         /\ \A p \in opts.udp : GetMappedUdpPort(s, p) = {HostPort("udp", p)}
         /\ \A p \in preset.exposes : Mapped(s, p) = HostPort("tcp", p)
<1> DEFINE tcp == [p \in preset.exposes |-> HostPort("tcp", p)]
           udp == [p \in opts.udp |-> HostPort("udp", p)]
<1>1. s.ports = MergePortBindings(tcp, udp)
  BY SpecFields
<1>2. /\ DOMAIN tcp = preset.exposes /\ DOMAIN udp = opts.udp
      /\ \A p \in preset.exposes : tcp[p] = HostPort("tcp", p)
      /\ \A p \in opts.udp : udp[p] = HostPort("udp", p)
  OBVIOUS
<1> HIDE DEF tcp, udp
<1>3. /\ GuestPorts(s, "tcp") = DOMAIN tcp /\ GuestPorts(s, "udp") = DOMAIN udp
      /\ \A p : GetMappedPort(s, p) = IF p \in DOMAIN tcp THEN {tcp[p]} ELSE {}
      /\ \A p \in DOMAIN udp : GetMappedUdpPort(s, p) = {udp[p]}
      /\ \A p \in DOMAIN tcp : Mapped(s, p) = tcp[p]
  BY <1>1, Bindings
<1> QED
  BY <1>2, <1>3

\* A checkpoint's spec is what its sandbox runs.
LEMMA TakenIsFaithful ==
  ASSUME UserInv, EnvInv, StartInv, SpecInv, pc = "up", sandbox = Made,
         from = NoCheckpoint, NEW captured \in {None, sandbox.command}
  PROVE  Faithful(Taken(captured), preset.exposes)
<1> DEFINE c == Taken(captured)
<1>1. spec = Customized /\ active \in Backends
  BY DEF SpecInv, StartInv, Begun, Later, Running
<1>2. /\ sandbox.env = spec.env /\ sandbox.ports = spec.ports
      /\ sandbox.files = spec.files /\ sandbox.memory = spec.memory
      /\ sandbox.command = IF spec.command = None THEN "entrypoint" ELSE spec.command
  BY <1>1, FirstMade
<1>3. /\ c = [backend |-> active, spec |-> c.spec, ran |-> sandbox]
      /\ c.backend = active /\ c.ran = sandbox
      /\ c.spec = [spec EXCEPT !.captured = captured]
  BY DEF Taken
<1>4. /\ c.spec.env = spec.env /\ c.spec.ports = spec.ports
      /\ c.spec.command = spec.command /\ c.spec.memory = spec.memory
      /\ c.spec.captured = captured
  BY <1>1, <1>3 DEF Customized, ContainerSpec
<1> HIDE DEF c
<1>5. /\ GuestPorts(c.spec, "tcp") = preset.exposes
      /\ GuestPorts(c.ran, "tcp") = preset.exposes
      /\ GuestPorts(c.spec, "udp") = opts.udp /\ GuestPorts(c.ran, "udp") = opts.udp
  BY <1>1, <1>2, <1>3, <1>4, PortsOf
<1>6. /\ opts.udp \in {{}, {80}} /\ opts.command \in {None, "mine"}
      /\ opts.memory \in {0, 1} /\ opts.files \in {{}, {"/etc/own"}}
  BY DEF UserInv, Settings
<1>7. "VAR" \in DOMAIN spec.env => spec.env["VAR"] # None
  <2>1. Named(preset) /\ Pushed(env)
    BY KnownSound DEF Known, UserInv, Sound, EnvInv
  <2>2. "VAR" \in DOMAIN LastWins(Advertised) =>
          "VAR" \in DOMAIN env /\ LastWins(Advertised)["VAR"] = LastWins(env)["VAR"]
    BY <2>1, AdvertisedWins DEF Listener
  <2> QED
    BY <1>1, <2>2, SpecFields DEF EnvInv, None
<1> QED
  BY <1>1, <1>2, <1>3, <1>4, <1>5, <1>6, <1>7, SpecFields DEF Faithful, c

\* what is left of a container that was checkpointed
Resumed(now, then) ==
  /\ Alike(now, then)
  /\ now.env = then.env /\ now.ports = then.ports
  /\ now.files = then.files /\ then.net \subseteq now.net
ResumeInv == cp # NoCheckpoint /\ pc \in Running => Resumed(sandbox, cp.ran)

LEMMA CpStep ==
  ASSUME UserInv, EnvInv, StartInv, SpecInv, BoxInv, CpInv, ResumeInv, [Next]_vars
  PROVE  CpInv' /\ ResumeInv'
<1> USE DEF Begun, Later, Running
<1>1. CASE Build
  <2>1. CASE \E k \in preset.sets, v \in {"mine", "other"} : SetVariable(k, v)
    BY <2>1 DEF SetVariable, box, CpInv, ResumeInv
  <2>2. CASE \E k \in preset.sets : RemoveVariable(k)
    BY <2>2 DEF RemoveVariable, box, CpInv, ResumeInv
  <2>3. CASE WithTaskManager
    BY <2>3 DEF WithTaskManager, Activate, box, user, CpInv, ResumeInv
  <2>4. CASE StartedBefore
    BY <2>4 DEF StartedBefore, box, user, CpInv, ResumeInv
  <2>5. CASE \E found \in BOOLEAN : FromTaken(found)
    BY <2>5 DEF FromTaken, CpInv, ResumeInv
  <2> QED
    BY <1>1, <2>1, <2>2, <2>3, <2>4, <2>5 DEF Build
<1>2. CASE Start
  BY <1>2 DEF Start, box, user, CpInv, ResumeInv
<1>3. CASE Create \/ Boot
  BY <1>3 DEF Create, Boot, user, CpInv, ResumeInv
<1>4. CASE Checkpoint
  <2>1. /\ preset \in Originals /\ from = NoCheckpoint
        /\ UNCHANGED <<user, spec>>
    BY <1>4 DEF Checkpoint, Originals
  <2>2. pc = "up" /\ sandbox = Made /\ cp = NoCheckpoint
    BY <1>4, CheckpointForm
  <2>3. UNCHANGED <<preset, from>>
    BY <2>1 DEF user
  <2>4. CASE active = "docker" /\ pc' = "up" /\ cp' = Taken(None) /\ UNCHANGED sandbox
    <3>1. Faithful(cp', preset.exposes)
      BY <2>1, <2>2, <2>4, TakenIsFaithful
    <3>2. cp'.ran = sandbox
      BY <2>4 DEF Taken
    <3> QED
      BY <2>1, <2>3, <2>4, <3>1, <3>2 DEF CpInv, ResumeInv, Resumed, Alike
  <2>5. ASSUME active = "microsandbox", pc' = "rewait",
               NEW captured \in {None, sandbox.command}, captured # None => spec.command = None,
               Boots(Rebooted(captured), spec.files), cp' = Taken(captured),
               sandbox' = Restore(Rebooted(captured))
        PROVE  CpInv' /\ ResumeInv'
    <3>1. Faithful(cp', preset.exposes)
      BY <2>1, <2>2, <2>5, TakenIsFaithful
    <3>2. cp'.ran = sandbox
      BY <2>5 DEF Taken
    <3>3. spec = Customized
      BY <2>2 DEF SpecInv
    <3>4. sandbox = Run(spec)
      BY <2>1, <2>2, <2>5, <3>3, FirstMade DEF Backends
    <3>5. Workload(Rebooted(captured)) = sandbox.command
      BY <2>5, <3>3, <3>4, RebootedFields DEF Boots, Workload, Run
    <3>6. sandbox.net \subseteq sandbox'.net
      BY <2>5, <3>3, <3>4, RebootedFields DEF Restore, Run, Replaced, DefaultNet
    <3>7. Resumed(sandbox', sandbox)
      BY <2>5, <3>3, <3>4, <3>5, <3>6, RebootedFields
      DEF Resumed, Alike, GuestPorts, Restore, Run
    <3> QED
      BY <2>1, <2>3, <2>5, <3>1, <3>2, <3>7 DEF CpInv, ResumeInv
  <2>6. CASE pc' = "failed" /\ cp' = cp
    BY <2>2, <2>6 DEF CpInv, ResumeInv
  <2> QED
    BY <1>4, <2>4, <2>5, <2>6, CheckpointForm
<1>5. CASE Late
  <2>1. UNCHANGED <<preset, from>>
    BY <1>5, LateFrame DEF user
  <2> QED
    BY <1>5, <2>1, LateFrame DEF CpInv, ResumeInv
<1>6. CASE UNCHANGED vars
  BY <1>6 DEF vars, user, box, CpInv, ResumeInv
<1> QED
  BY <1>1, <1>2, <1>3, <1>4, <1>5, <1>6, Steps

-----------------------------------------------------------------------------
(* The server                                                              *)

LifeInv ==
  /\ pc = "rewait" => preset \in Originals
  /\ reported => pc \in {"initiate", "elect", "pair", "up", "rewait"}
  /\ tm # None => preset.pair
  /\ pc = "pair" => tm = "planned"
  /\ tm = "up" => pc = "up"
  /\ pc = "stopped" => tm = None

LEMMA OriginalsFields == \A of \in Originals : of.pair = FALSE /\ of.hook = FALSE
<1>1. Own.pair = FALSE /\ Own.hook = FALSE
  BY DEF Own, Basic
<1>2. Kafka.pair = FALSE /\ Kafka.hook = FALSE
  BY DEF Kafka, With, Basic
<1> QED
  BY <1>1, <1>2 DEF Originals

LEMMA LifeStep ==
  ASSUME LifeInv, [Next]_vars
  PROVE  LifeInv'
<1> USE DEF LifeInv, user, None
<1>1. CASE \E k \in preset.sets, v \in {"mine", "other"} : SetVariable(k, v)
  BY <1>1 DEF SetVariable
<1>2. CASE \E k \in preset.sets : RemoveVariable(k)
  BY <1>2 DEF RemoveVariable
<1>3. CASE WithTaskManager
  BY <1>3 DEF WithTaskManager, Activate
<1>4. CASE StartedBefore \/ Start \/ Create \/ Boot
  BY <1>4 DEF StartedBefore, Start, Activate, Create, Boot
<1>5. CASE \E found \in BOOLEAN : FromTaken(found)
  BY <1>5 DEF FromTaken
<1>6. CASE Checkpoint
  <2>1. preset \in Originals /\ pc = "up" /\ UNCHANGED <<user, tm>>
    BY <1>6 DEF Checkpoint, Originals
  <2>2. tm = None
    BY <2>1, OriginalsFields
  <2>3. \/ pc' \in {"up", "rewait"} /\ reported' = reported
        \/ pc' = "failed" /\ reported' = FALSE
    BY <1>6, <2>1 DEF Checkpoint, Commit, Cycle, Ended
  <2> QED
    BY <2>1, <2>2, <2>3
<1>7. CASE Probe \/ Deadline \/ Register \/ Initiate \/ Elect
  BY <1>7 DEF Probe, Deadline, Register, Initiate, Elect, Ended, server
<1>8. CASE Pair \/ Stop \/ Rewait
  BY <1>8 DEF Pair, Stop, Rewait, Ended
<1>9. CASE Advance \/ Crash \/ UNCHANGED vars
  BY <1>9 DEF Advance, Crash, vars
<1> QED
  BY <1>1, <1>2, <1>3, <1>4, <1>5, <1>6, <1>7, <1>8, <1>9, Steps DEF Build, Late

\* what a start has waited for, once it need not wait any more
Enough == Serving \/ (preset.wait.on = "listen" /\ ~preset.hook)

\* Up to its stage the server has said what the strategy has counted.
StageInv ==
  /\ stage \in 0..Len(preset.boot) /\ logs \in Seq(Lines)
  /\ pc \notin Running => stage = 0 /\ logs = <<>>
  /\ stage > 0 /\ preset.wait.on = "log" =>
       Cardinality(Matching) = Cardinality(Heard(preset, stage))
  /\ (pc = "ready" /\ ~preset.hook) \/ pc \in {"pair", "up"} => Enough

LEMMA HeardFinite ==
  ASSUME NEW p, NEW n \in Nat
  PROVE  IsFiniteSet(Heard(p, n)) /\ Cardinality(Heard(p, n)) \in Nat
<1>1. IsFiniteSet(2..n) /\ Heard(p, n) \in SUBSET (2..n)
  BY FS_Interval DEF Heard
<1> QED
  BY <1>1, FS_Subset, FS_CardinalityType

\* The strategy finds the server ready only when it serves, or has crashed; a
\* read probe promises nothing.
LEMMA ReadyIsEnough ==
  ASSUME StageInv, Sound(preset), ~preset.hook, LooksReady,
         sandbox.ports = Customized.ports
  PROVE  Enough
<1> SUFFICES ASSUME stage \in 1..(Len(preset.boot) - 1),
                    preset.wait.on # "listen"
             PROVE  Serving
  BY DEF StageInv, Sound, Serves, Enough, Serving
<1>4. IsReady
  BY DEF LooksReady
<1> DEFINE last == Len(preset.boot) - 1
<1>1. last \in Nat /\ stage \in Nat /\ stage > 0 /\ stage <= last
  BY DEF Sound, Serves
<1>2. CASE preset.wait.on = "log"
  <2>1. Cardinality(Heard(preset, stage)) >= preset.wait.times
    BY <1>1, <1>2, <1>4 DEF IsReady, StageInv
  <2>2. Heard(preset, stage) \in SUBSET Heard(preset, last)
    BY <1>1 DEF Heard
  <2>3. Cardinality(Heard(preset, stage)) <= Cardinality(Heard(preset, last))
    BY <1>1, <2>2, HeardFinite, FS_Subset
  <2>4. Cardinality(Heard(preset, last)) < preset.wait.times
    BY <1>2 DEF Sound, Serves, HearsEnoughLast
  <2>5. /\ Cardinality(Heard(preset, stage)) \in Nat
        /\ Cardinality(Heard(preset, last)) \in Nat /\ preset.wait.times \in Nat
    BY <1>1, <1>2, HeardFinite DEF Sound, Serves
  <2> HIDE DEF last
  <2> QED
    BY <2>1, <2>3, <2>4, <2>5
<1>3. CASE preset.wait.on = "port"
  <2> SUFFICES ASSUME NEW n \in preset.wait.ports
               PROVE  n \in preset.boot[stage].open
    BY <1>3 DEF Serving
  <2>1. n \in preset.exposes
    BY <1>3 DEF Sound, Serves, OpensLate
  <2>2. GetMappedPort(sandbox, n) = {HostPort("tcp", n)}
    BY <2>1, PortsOf
  <2>3. HostPort("tcp", n) \in Answering
    BY <1>3, <1>4, <2>2 DEF IsReady, Target
  <2>4. PICK q \in preset.boot[stage].open :
          HostPort("tcp", n) \in GetMappedPort(sandbox, q)
    BY <1>1, <2>3 DEF Answering
  <2>5. HostPort("tcp", n) = HostPort("tcp", q)
    BY <2>4, PortsOf
  <2> QED
    BY <2>4, <2>5 DEF HostPort
<1> QED
  BY <1>2, <1>3 DEF Sound, Serves

LEMMA CountStep ==
  ASSUME StageInv, Sound(preset), Advance
  PROVE  /\ logs' \in Seq(Lines)
         /\ preset.wait.on = "log" =>
              Cardinality(Matching)' = Cardinality(Heard(preset, stage'))
<1> DEFINE n == stage + 1
           says == preset.boot[n].says
           heard == says # Quiet /\ says \in preset.wait.says
<1>1. /\ stage \in Nat /\ stage > 0 /\ n \in 2..Len(preset.boot)
      /\ stage' = n /\ logs' = Announced(n) /\ UNCHANGED preset
  BY DEF Advance, user, StageInv, Sound, Serves
<1>2. says \in Lines \cup {Quiet}
  BY <1>1 DEF Sound, Serves
<1>3. logs \in Seq(Lines) /\ Len(logs) \in Nat
  BY DEF StageInv
<1>4. logs' = IF says = Quiet THEN logs ELSE Append(logs, says)
  BY <1>1 DEF Announced
<1>5. logs' \in Seq(Lines)
  BY <1>2, <1>3, <1>4
<1>6. Matching' = IF heard THEN Matching \cup {Len(logs) + 1} ELSE Matching
  <2>1. Matching' = {i \in DOMAIN logs' : logs'[i] \in preset.wait.says}
    BY <1>1 DEF Matching
  <2>2. CASE says = Quiet
    BY <1>4, <2>1, <2>2 DEF Matching
  <2>3. CASE says # Quiet
    <3>1. /\ DOMAIN logs = 1..Len(logs) /\ DOMAIN logs' = 1..(Len(logs) + 1)
          /\ \A i \in 1..Len(logs) : logs'[i] = logs[i]
          /\ logs'[Len(logs) + 1] = says
      BY <1>2, <1>3, <1>4, <2>3
    <3> QED
      BY <1>3, <2>1, <2>3, <3>1 DEF Matching
  <2> QED
    BY <2>2, <2>3
<1>7. Heard(preset, n) = IF heard THEN Heard(preset, stage) \cup {n}
                         ELSE Heard(preset, stage)
  BY <1>1 DEF Heard
<1>8. IsFiniteSet(Matching) /\ Len(logs) + 1 \notin Matching
  <2>1. IsFiniteSet(1..Len(logs))
    BY <1>3, FS_Interval
  <2>2. Matching \in SUBSET (1..Len(logs))
    BY <1>3 DEF Matching
  <2>3. IsFiniteSet(Matching)
    BY <2>1, <2>2, FS_Subset
  <2> QED
    BY <1>3, <2>2, <2>3
<1>9. IsFiniteSet(Heard(preset, stage)) /\ n \notin Heard(preset, stage)
  <2>1. n \notin 2..stage
    BY <1>1
  <2> QED
    BY <1>1, <2>1, HeardFinite DEF Heard
<1>10. preset.wait.on = "log" =>
         Cardinality(Matching) = Cardinality(Heard(preset, stage))
  BY <1>1 DEF StageInv
<1> HIDE DEF heard
<1>11. /\ Cardinality(Matching \cup {Len(logs) + 1}) = Cardinality(Matching) + 1
       /\ Cardinality(Heard(preset, stage) \cup {n})
            = Cardinality(Heard(preset, stage)) + 1
  BY <1>8, <1>9, FS_AddElement
<1>12. preset.wait.on = "log" =>
         Cardinality(Matching') = Cardinality(Heard(preset, n))
  BY <1>6, <1>7, <1>10, <1>11
<1> QED
  BY <1>1, <1>5, <1>12

LEMMA StageStep ==
  ASSUME StageInv, LifeInv, Sound(preset), Sound(preset)', SpecInv, CpInv,
         pc \in Running => sandbox.ports = Customized.ports, [Next]_vars
  PROVE  StageInv'
<1> USE DEF Begun, Later, Running
<1>1. ASSUME UNCHANGED <<preset, stage, logs>>, pc' \in Running => pc \in Running,
             pc' \notin Running => pc \notin Running,
             \/ pc' \notin {"ready", "pair", "up"}
             \/ pc' \in {"pair", "up"} /\ pc \in {"pair", "up"}
             \/ pc' \in {"pair", "up"} /\ pc = "ready" /\ ~preset.hook
             \/ Enough
      PROVE  StageInv'
  BY <1>1 DEF StageInv, Matching, Enough, Serving
<1>2. ASSUME stage' = 0, logs' = <<>>, pc' \notin Running PROVE StageInv'
  <2>1. Len(preset'.boot) \in Nat
    BY DEF Sound, Serves
  <2> QED
    BY <1>2, <2>1 DEF StageInv
<1>19. ASSUME stage' = 1, logs' = <<>>, UNCHANGED preset, pc' \in {"wait", "rewait"},
              Matching' = {}, Heard(preset, 1) = {}
       PROVE  StageInv'
  <2>1. 1 \in 0..Len(preset.boot) /\ <<>> \in Seq(Lines)
    BY DEF Sound, Serves
  <2> QED
    BY <1>19, <2>1 DEF StageInv
<1>3. CASE Build
  <2>1. stage' = stage /\ logs' = logs
    <3>1. CASE \E k \in preset.sets, v \in {"mine", "other"} : SetVariable(k, v)
      BY <3>1 DEF SetVariable, server
    <3>2. CASE \E k \in preset.sets : RemoveVariable(k)
      BY <3>2 DEF RemoveVariable, server
    <3>3. CASE WithTaskManager \/ StartedBefore
      BY <3>3 DEF WithTaskManager, StartedBefore, server
    <3>4. CASE \E found \in BOOLEAN : FromTaken(found)
      BY <3>4 DEF FromTaken, server
    <3> QED
      BY <1>3, <3>1, <3>2, <3>3, <3>4 DEF Build
  <2> QED
    BY <1>2, <1>3, <2>1, BuildFrame DEF StageInv
<1>4. CASE Start \/ Create
  BY <1>2, <1>4 DEF Start, Activate, Create, server, StageInv
<1>5. CASE Boot
  <2>1. pc' = "wait" \/ (UNCHANGED stage /\ pc' \notin Running)
    BY <1>5 DEF Boot
  <2>2. logs = <<>> /\ stage = 0 /\ UNCHANGED <<preset, logs>>
    BY <1>5 DEF Boot, StageInv, user
  <2>3. CASE pc' = "wait"
    <3>1. stage' = 1
      BY <1>5, <2>3 DEF Boot
    <3>2. Matching' = {} /\ Heard(preset, 1) = {}
      BY <2>2 DEF Matching, Heard
    <3> QED
      BY <1>19, <2>2, <2>3, <3>1, <3>2
  <2> QED
    BY <1>2, <2>1, <2>2, <2>3
<1>6. ASSUME NEW l, Ended(l), l \in {"failed", "stopped"} PROVE StageInv'
  BY <1>2, <1>6 DEF Ended
<1>7. CASE Probe
  <2>1. pc = "wait" /\ UNCHANGED <<preset, stage, logs>>
        /\ ((LooksReady /\ pc' = "ready") \/ pc' = "unready")
    BY <1>7 DEF Probe, user, server
  <2>2. pc' = "ready" /\ ~preset.hook => Enough
    BY <2>1, ReadyIsEnough
  <2> QED
    BY <2>1, <2>2 DEF StageInv, Matching, Enough, Serving
<1>8. CASE Deadline
  BY <1>1, <1>6, <1>8 DEF Deadline, user, server
<1>9. CASE Register
  BY <1>1, <1>9 DEF Register, user, server
<1>10. CASE Initiate
  BY <1>1, <1>6, <1>10 DEF Initiate, user
<1>11. CASE Elect
  BY <1>1, <1>6, <1>11 DEF Elect, Elected, user, server, Enough, Serving
<1>12. CASE Pair
  BY <1>1, <1>6, <1>12 DEF Pair, user, server
<1>13. CASE Stop
  BY <1>6, <1>13 DEF Stop
<1>14. CASE Rewait
  <2>1. pc = "rewait" /\ preset.hook = FALSE /\ UNCHANGED preset
    BY <1>14, OriginalsFields DEF Rewait, LifeInv, user
  <2>2. CASE LooksReady /\ pc' = "up" /\ UNCHANGED server
    BY <1>1, <2>1, <2>2, ReadyIsEnough DEF server
  <2> QED
    BY <1>6, <1>14, <2>2 DEF Rewait
<1>15. CASE Checkpoint
  <2>1. pc = "up" /\ UNCHANGED preset
    BY <1>15 DEF Checkpoint, user
  <2>2. CASE Commit
    BY <1>1, <2>1, <2>2 DEF Commit, server
  <2>3. CASE pc' = "rewait" /\ stage' = 1 /\ logs' = <<>>
    <3>1. Matching' = {} /\ Heard(preset, 1) = {}
      BY <2>3 DEF Matching, Heard
    <3> QED
      BY <1>19, <2>1, <2>3, <3>1
  <2> QED
    BY <1>6, <1>15, <2>2, <2>3 DEF Checkpoint, Cycle
<1>16. CASE Advance
  <2>1. /\ stage' = stage + 1 /\ UNCHANGED <<preset, pc>>
        /\ stage > 0 /\ stage < Len(preset.boot)
    BY <1>16 DEF Advance, user
  <2>2. Enough => Enough'
    <3>1. CASE preset.wait.on = "port"
      <4>1. Enough => stage + 1 = Len(preset.boot)
        BY <2>1, <3>1 DEF Enough, Serving, StageInv, Sound, Serves, OpensLate
      <4> QED
        BY <2>1, <4>1 DEF Enough, Serving
    <3>2. CASE preset.wait.on # "port"
      BY <2>1, <3>2 DEF Enough, Serving, StageInv, Sound, Serves
    <3> QED
      BY <3>1, <3>2
  <2> QED
    BY <1>16, <2>1, <2>2, CountStep DEF StageInv, Sound, Serves
<1>17. CASE Crash
  BY <1>17 DEF Crash, StageInv, Sound, Serves, user, Enough, Serving
<1>18. CASE UNCHANGED vars
  BY <1>18 DEF vars, user, server, StageInv, Matching, Enough, Serving
<1> QED
  BY <1>3, <1>4, <1>5, <1>7, <1>8, <1>9, <1>10, <1>11, <1>12, <1>13, <1>14,
     <1>15, <1>16, <1>17, <1>18, Steps DEF Late

-----------------------------------------------------------------------------
(* The sandbox                                                             *)

\* What every sandbox has of its spec, on whatever route it was made.
LEMMA BoxFields ==
  ASSUME StartInv, SpecInv, BoxInv, pc \in Running
  PROVE  /\ spec = Customized
         /\ sandbox.ports = spec.ports /\ sandbox.files = spec.files
         /\ sandbox.memory = spec.memory
         /\ spec.command # None => sandbox.command = spec.command
         /\ \A k \in DOMAIN spec.env :
              k \in DOMAIN sandbox.env /\ sandbox.env[k] = spec.env[k]
         /\ active = "microsandbox" \/ from = NoCheckpoint =>
              sandbox.env = spec.env
         /\ spec.egress \cup {Ingress} \subseteq sandbox.net
         /\ active = "microsandbox" /\ sandbox.root # <<"snapshot">> =>
              sandbox = Run(spec)
<1>1. spec = Customized
  BY DEF SpecInv, Later
<1>2. active \in Backends
  BY DEF StartInv, Later, Begun
<1>3. CASE active = "docker" /\ sandbox = Made
  <2>1. sandbox = CreateBody(spec, Source)
    BY <1>3 DEF Made
  <2>2. sandbox.env = Over(spec.env, Source.env)
    BY <2>1 DEF CreateBody
  <2>3. \A k \in DOMAIN spec.env :
          k \in DOMAIN sandbox.env /\ sandbox.env[k] = spec.env[k]
    BY <2>2 DEF Over
  <2>4. from = NoCheckpoint => sandbox.env = spec.env
    BY <1>1, <2>2, SpecFields, OverNothing DEF Source
  <2>5. /\ sandbox.ports = spec.ports /\ sandbox.files = spec.files
        /\ sandbox.memory = spec.memory
        /\ spec.command # None => sandbox.command = spec.command
        /\ spec.egress \cup {Ingress} \subseteq sandbox.net
    BY <2>1 DEF CreateBody, DefaultNet
  <2> QED
    BY <1>1, <1>3, <2>3, <2>4, <2>5
<1>4. CASE sandbox = Run(spec)
  <2>1. /\ sandbox.env = spec.env /\ sandbox.ports = spec.ports
        /\ sandbox.files = spec.files /\ sandbox.memory = spec.memory
        /\ spec.command # None => sandbox.command = spec.command
    BY <1>4 DEF Run
  <2>2. spec.egress \cup {Ingress} \subseteq sandbox.net
    <3>1. Ingress # Public
      BY DEF Ingress, Public
    <3> QED
      BY <1>4, <3>1 DEF Run, DefaultNet
  <2> QED
    BY <1>1, <1>4, <2>1, <2>2
<1>5. CASE \E s : /\ sandbox = Restore(s) /\ s.env = spec.env /\ s.ports = spec.ports
                  /\ s.files = spec.files /\ s.memory = spec.memory
                  /\ s.command = spec.command /\ s.egress = spec.egress
  <2>1. /\ sandbox.env = spec.env /\ sandbox.ports = spec.ports
        /\ sandbox.files = spec.files /\ sandbox.memory = spec.memory
        /\ spec.command # None => sandbox.command = spec.command
        /\ sandbox.root = <<"snapshot">>
    BY <1>5 DEF Restore, Workload
  <2>2. spec.egress \cup {Ingress} \subseteq sandbox.net
    BY <1>5 DEF Restore, Replaced, DefaultNet
  <2> QED
    BY <1>1, <2>1, <2>2
<1>6. CASE \E captured : sandbox = Restore(Rebooted(captured))
  <2>1. PICK captured : sandbox = Restore(Rebooted(captured))
    BY <1>6
  <2>2. /\ Rebooted(captured).env = spec.env /\ Rebooted(captured).ports = spec.ports
        /\ Rebooted(captured).files = spec.files
        /\ Rebooted(captured).memory = spec.memory
        /\ Rebooted(captured).command = spec.command
        /\ Rebooted(captured).egress = spec.egress
    BY <1>1, RebootedFields
  <2> QED
    BY <1>5, <2>1, <2>2
<1> QED
  BY <1>2, <1>3, <1>4, <1>5, <1>6 DEF BoxInv, Made, Backends

-----------------------------------------------------------------------------
(* The inductive invariant                                                 *)

IInv ==
  /\ UserInv /\ EnvInv /\ StartInv /\ SpecInv /\ BoxInv /\ CpInv /\ ResumeInv
  /\ LifeInv /\ StageInv

LEMMA InitInv == Init => IInv
<1> SUFFICES ASSUME Init PROVE IInv
  OBVIOUS
<1> USE DEF Begun, Later, Running
<1>1. Sound(preset)
  BY KnownSound DEF Init, Known
<1>2. UserInv
  <2>1. Default \in Settings
    BY DEF Default, Settings, None
  <2>2. Options \subseteq Settings
    BY DEF Options, Setting
  <2> QED
    BY <2>1, <2>2 DEF Init, UserInv
<1>3. EnvInv
  <2>1. /\ DOMAIN env = preset.defaults \cup preset.fixed
        /\ \A k \in DOMAIN env :
             env[k] = IF k \in preset.fixed THEN <<"fixed">> ELSE <<"test">>
    BY DEF Init
  <2>2. \A v : /\ <<v>> \in Seq({v}) /\ <<v>> # <<>>
               /\ <<v>>[Len(<<v>>)] = v
    OBVIOUS
  <2>3. Pushed(env)
    <3> SUFFICES ASSUME NEW k \in DOMAIN env
                 PROVE  \E S : env[k] \in Seq(S) /\ env[k] # <<>>
      BY DEF Pushed
    <3>1. PICK v : env[k] = <<v>>
      BY <2>1
    <3> QED
      BY <2>2, <3>1
  <2>4. \A k \in DOMAIN env :
          LastWins(env)[k] = IF k \in preset.fixed THEN "fixed" ELSE "test"
    <3> SUFFICES ASSUME NEW k \in DOMAIN env
                 PROVE  LastWins(env)[k]
                          = IF k \in preset.fixed THEN "fixed" ELSE "test"
      OBVIOUS
    <3>1. LastWins(env)[k] = env[k][Len(env[k])]
      BY DEF LastWins
    <3>2. env[k] = IF k \in preset.fixed THEN <<"fixed">> ELSE <<"test">>
      BY <2>1
    <3> QED
      BY <2>2, <3>1, <3>2
  <2>5. /\ DOMAIN told = preset.sets
        /\ \A k \in preset.sets :
             told[k] = IF k \in preset.defaults THEN "test" ELSE None
    BY DEF Init
  <2>6. from = NoCheckpoint
    BY DEF Init
  <2> QED
    BY <1>1, <2>1, <2>3, <2>4, <2>5, <2>6 DEF EnvInv, Sound, Named, None
<1>4. StartInv /\ SpecInv /\ BoxInv /\ CpInv /\ ResumeInv /\ LifeInv
  BY DEF Init, StartInv, SpecInv, BoxInv, CpInv, ResumeInv, LifeInv, None
<1>5. StageInv
  <2>1. 0 \in 0..Len(preset.boot)
    BY <1>1 DEF Sound, Serves
  <2>2. <<>> \in Seq(Lines)
    OBVIOUS
  <2> QED
    BY <2>1, <2>2 DEF Init, StageInv
<1> QED
  BY <1>2, <1>3, <1>4, <1>5 DEF IInv

LEMMA SoundInv == UserInv => Sound(preset)
BY KnownSound DEF UserInv, Known

LEMMA InvStep == IInv /\ [Next]_vars => IInv'
<1> SUFFICES ASSUME IInv, [Next]_vars PROVE IInv'
  OBVIOUS
<1>1. UserInv' /\ EnvInv' /\ StartInv' /\ SpecInv' /\ BoxInv' /\ CpInv' /\ ResumeInv'
      /\ LifeInv'
  BY UserStep, EnvStep, StartStep, SpecStep, BoxStep, CpStep, LifeStep DEF IInv
<1>2. Sound(preset) /\ Sound(preset)'
  <2>1. preset \in Known
    BY DEF IInv, UserInv, Known
  <2>2. preset' \in Known
    BY <1>1 DEF UserInv, Known
  <2> QED
    BY <2>1, <2>2, KnownSound DEF Sound, Named, Serves, Heard, HearsEnoughLast,
       OpensLate
<1>3. pc \in Running => sandbox.ports = Customized.ports
  BY BoxFields DEF IInv
<1> QED
  BY <1>1, <1>2, <1>3, StageStep DEF IInv

LEMMA InvHolds == Spec => []IInv
BY InitInv, InvStep, PTL DEF Spec

-----------------------------------------------------------------------------
(* What it comes to                                                        *)

\* For every preset and every order of the builder's calls, server stages,
\* probes, crashes and checkpoints: no guard of a server that does not serve
\* yet, unless nothing but a listening-port wait was asked for, and no report
\* or TaskManager of one that is gone
\* (postgres.rs:76-81, mysql.rs:10-36, mongodb.rs:92-133).
THEOREM GuardOfServing == Spec => []ReadyMeansServing
<1>1. IInv => ReadyMeansServing
  BY DEF IInv, StageInv, LifeInv, ReadyMeansServing, Running, Enough
<1> QED
  BY <1>1, InvHolds, PTL

\* For every preset and plain container, whatever options it is given and in
\* whatever order: a container that is up has what was asked for last, on
\* either backend, first run or restored (container.rs, model.rs, commands.rs).
THEOREM SandboxAsAsked == Spec => []RunsAsAsked
<1>1. ASSUME IInv, pc = "up" PROVE RunsAsAsked
  <2>1. /\ UserInv /\ EnvInv /\ StartInv /\ SpecInv /\ BoxInv /\ CpInv
        /\ Named(preset) /\ Pushed(env)
    BY <1>1, SoundInv DEF IInv, Sound, EnvInv
  <2>2. active \in Backends /\ ~Refused(active)
    BY <1>1, <2>1 DEF StartInv, Begun, Later, Running
  <2>3. /\ spec = Customized
        /\ sandbox.ports = spec.ports /\ sandbox.files = spec.files
        /\ sandbox.memory = spec.memory
        /\ spec.command # None => sandbox.command = spec.command
        /\ \A k \in DOMAIN spec.env :
             k \in DOMAIN sandbox.env /\ sandbox.env[k] = spec.env[k]
        /\ active = "microsandbox" \/ from = NoCheckpoint => sandbox.env = spec.env
        /\ spec.egress \cup {Ingress} \subseteq sandbox.net
        /\ active = "microsandbox" /\ sandbox.root # <<"snapshot">> =>
             sandbox = Run(spec)
    BY <1>1, <2>1, BoxFields DEF Running
  <2>4. spec.env = LastWins(Advertised)
    BY <2>3, SpecFields
  <2>5. /\ \A k \in DOMAIN spec.env \ {Listener} : k \in DOMAIN env
        /\ \A k \in DOMAIN env \ {Listener} :
             k \in DOMAIN spec.env /\ spec.env[k] = LastWins(env)[k]
        /\ \A p \in preset.tells :
             Listener \in DOMAIN spec.env /\ spec.env[Listener] = HostPort("tcp", p)
    BY <2>1, <2>4, AdvertisedWins
  <2>6. \A k \in preset.sets :
          IF told[k] = None
          THEN k \in DOMAIN sandbox.env => from # NoCheckpoint /\ active = "docker"
          ELSE k \in DOMAIN sandbox.env /\ sandbox.env[k] = told[k]
    <3> TAKE k \in preset.sets
    <3>1. k # Listener
      BY <2>1 DEF Named
    <3>2. CASE told[k] = None
      <4>1. k \notin DOMAIN spec.env
        BY <2>1, <2>5, <3>1, <3>2 DEF EnvInv
      <4> QED
        BY <2>2, <2>3, <3>2, <4>1 DEF Backends
    <3>3. CASE told[k] # None
      <4>1. k \in DOMAIN env /\ LastWins(env)[k] = told[k]
        BY <2>1, <3>3 DEF EnvInv
      <4> QED
        BY <2>3, <2>5, <3>1, <3>3, <4>1
    <3> QED
      BY <3>2, <3>3
  <2>7. (\E k \in preset.sets : told[k] \in {"mine", "other"}) =>
          preset.clears \cap DOMAIN sandbox.env = {}
    <3> SUFFICES ASSUME \E k \in preset.sets : told[k] \in {"mine", "other"}
                 PROVE  preset.clears \cap DOMAIN sandbox.env = {}
      OBVIOUS
    <3>1. CASE from = NoCheckpoint
      <4>1. preset.clears \cap DOMAIN env = {} /\ Listener \notin preset.clears
        BY <2>1 DEF EnvInv, Named
      <4> QED
        BY <2>3, <2>5, <3>1, <4>1
    <3>2. CASE from # NoCheckpoint
      BY <2>1, <3>2, RestoredFields DEF UserInv
    <3> QED
      BY <3>1, <3>2
  <2>8. /\ opts.command # None => sandbox.command = opts.command
        /\ sandbox.files = opts.files /\ sandbox.memory = opts.memory
        /\ UdpEgressPorts(opts.links) \cup {Ingress} \subseteq sandbox.net
    BY <2>3, SpecFields
  <2>9. /\ GuestPorts(sandbox, "tcp") = preset.exposes
        /\ GuestPorts(sandbox, "udp") = opts.udp
        /\ \A p \in preset.exposes :
             /\ GetMappedPort(sandbox, p) = {HostPort("tcp", p)}
             /\ Mapped(sandbox, p) = HostPort("tcp", p)
        /\ \A p \in opts.udp : GetMappedUdpPort(sandbox, p) = {HostPort("udp", p)}
    BY <2>3, PortsOf
  <2>10. preset.urls \subseteq preset.exposes /\ preset.tells \subseteq preset.exposes
    BY <2>1 DEF Named
  <2>11. \A p \in preset.tells : sandbox.env[Listener] = Mapped(sandbox, p)
    BY <2>3, <2>5, <2>9, <2>10
  <2>12. active = "microsandbox" /\ sandbox.root # <<"snapshot">> =>
           /\ opts.disk > 0 => sandbox.root = <<"disk", opts.disk>>
           /\ opts.tmpfs > 0 => sandbox.root = <<"tmpfs", opts.tmpfs>>
           /\ opts.offline => Public \notin sandbox.net
    <3> SUFFICES ASSUME active = "microsandbox", sandbox = Run(spec)
                 PROVE  /\ opts.disk > 0 => sandbox.root = <<"disk", opts.disk>>
                        /\ opts.tmpfs > 0 => sandbox.root = <<"tmpfs", opts.tmpfs>>
                        /\ opts.offline => Public \notin sandbox.net
      BY <2>3
    <3>1. /\ spec.disk = opts.disk /\ spec.tmpfs = opts.tmpfs
          /\ spec.offline = opts.offline /\ spec.egress = UdpEgressPorts(opts.links)
      BY <2>3, SpecFields
    <3>2. ~(opts.disk > 0 /\ opts.tmpfs > 0)
      BY <2>2 DEF Refused, Conflicting
    <3>3. Public \notin UdpEgressPorts(opts.links)
      BY DEF UdpEgressPorts, Public
    <3> QED
      BY <3>1, <3>2, <3>3 DEF Run
  <2>13. opts.isolation => active = "microsandbox"
    BY <2>2 DEF Refused
  <2> QED
    BY <2>6, <2>7, <2>8, <2>9, <2>10, <2>11, <2>12, <2>13 DEF RunsAsAsked
<1>2. IInv => RunsAsAsked
  BY <1>1 DEF RunsAsAsked
<1> QED
  BY <1>2, InvHolds, PTL

\* For every checkpoint of a plain container or of Kafka, on either backend,
\* taken at once or found in the registry: the container resumes as it was,
\* and one that starts from it runs the same (container.rs:180-226,
\* docs/checkpoints.md).
THEOREM CheckpointRestores == Spec => []RestoresTheSame
<1>1. ASSUME IInv, pc = "up", cp # NoCheckpoint
      PROVE  /\ Alike(sandbox, cp.ran)
             /\ sandbox.env = cp.ran.env /\ sandbox.ports = cp.ran.ports
             /\ sandbox.files = cp.ran.files /\ cp.ran.net \subseteq sandbox.net
  BY <1>1 DEF IInv, ResumeInv, Running, Resumed
<1>2. ASSUME IInv, pc = "up", from # NoCheckpoint
      PROVE  /\ Alike(sandbox, from.ran) /\ active = from.backend
             /\ \A k \in DOMAIN from.ran.env :
                  k \in DOMAIN told \/ sandbox.env[k] = from.ran.env[k]
             /\ active = "microsandbox" =>
                  /\ sandbox.env = from.ran.env
                  /\ from.ran.files \subseteq sandbox.files
  <2>1. /\ UserInv /\ EnvInv /\ StartInv /\ SpecInv /\ BoxInv
        /\ cp = NoCheckpoint /\ Named(preset) /\ Pushed(env)
    BY <1>2, SoundInv DEF IInv, Sound, EnvInv, CpInv
  <2>2. active \in Backends /\ ~Refused(active)
    BY <1>2, <2>1 DEF StartInv, Begun, Later, Running
  <2>3. active = from.backend
    BY <1>2, <2>2 DEF Refused
  <2>4. sandbox = Made /\ Boots(spec, from.ran.files)
    BY <1>2, <2>1 DEF BoxInv, Running
  <2>5. /\ Faithful(from, preset.exposes) /\ preset \in RestoredOnes
        /\ opts.command = from.spec.command /\ opts.memory = from.spec.memory
        /\ opts.udp = GuestPorts(from.spec, "udp")
    BY <1>2, <2>1 DEF UserInv
  <2>6. preset.sets = {"VAR"} /\ preset.tells = {}
    BY <2>5, RestoredFields
  <2>7. /\ spec = Customized
        /\ sandbox.ports = spec.ports /\ sandbox.files = spec.files
        /\ sandbox.memory = spec.memory
        /\ \A k \in DOMAIN spec.env :
             k \in DOMAIN sandbox.env /\ sandbox.env[k] = spec.env[k]
        /\ active = "microsandbox" => sandbox.env = spec.env
    BY <1>2, <2>1, BoxFields DEF Running
  <2>8. /\ spec.command = from.spec.command /\ spec.memory = from.spec.memory
        /\ spec.captured = from.spec.captured /\ spec.restored = TRUE
    BY <1>2, <2>5, <2>7, SpecFields
  <2>9. spec.env = LastWins(env)
    BY <2>1, <2>6, <2>7, SpecFields, AdvertisedWins
  <2>10. sandbox.command = from.ran.command
    <3>1. CASE active = "docker"
      <4>1. sandbox = CreateBody(spec, Source) /\ Source.command = from.ran.command
        BY <1>2, <2>4, <3>1 DEF Made, Source
      <4> QED
        BY <2>5, <2>8, <4>1 DEF CreateBody, Faithful
    <3>2. CASE active = "microsandbox"
      <4>1. sandbox = Restore(spec) /\ Workload(spec) # None
        BY <2>4, <2>8, <3>2 DEF Made, Boots
      <4> QED
        BY <2>5, <2>8, <4>1 DEF Restore, Workload, Faithful
    <3> QED
      BY <2>2, <3>1, <3>2 DEF Backends
  <2>11. Alike(sandbox, from.ran)
    <3>1. /\ GuestPorts(sandbox, "tcp") = preset.exposes
          /\ GuestPorts(sandbox, "udp") = opts.udp
      BY <2>7, PortsOf
    <3> QED
      BY <2>5, <2>7, <2>8, <2>10, <3>1 DEF Alike, Faithful
  <2>12. from.ran.env = from.spec.env
    BY <2>5 DEF Faithful
  <2>13. \A k \in DOMAIN from.ran.env :
           k \in DOMAIN told \/ sandbox.env[k] = from.ran.env[k]
    <3> SUFFICES ASSUME NEW k \in DOMAIN from.spec.env, k \notin preset.sets
                 PROVE  sandbox.env[k] = from.spec.env[k]
      BY <2>1, <2>12 DEF EnvInv
    <3>1. k \in DOMAIN env /\ LastWins(env)[k] = from.spec.env[k]
      BY <1>2, <2>1 DEF EnvInv
    <3>2. k \in DOMAIN spec.env
      BY <2>9, <3>1, Domains
    <3> QED
      BY <2>7, <2>9, <3>1, <3>2
  <2>14. active = "microsandbox" =>
           sandbox.env = from.ran.env /\ from.ran.files \subseteq sandbox.files
    <3> SUFFICES ASSUME active = "microsandbox"
                 PROVE  /\ sandbox.env = from.ran.env
                        /\ from.ran.files \subseteq sandbox.files
      OBVIOUS
    <3>1. LastWins(env) = from.spec.env
      BY <1>2, <2>2 DEF Refused
    <3>2. from.ran.files \subseteq spec.files
      BY <2>4, <2>8 DEF Boots
    <3> QED
      BY <2>7, <2>9, <2>12, <3>1, <3>2
  <2> QED
    BY <2>3, <2>11, <2>13, <2>14
<1>3. IInv => RestoresTheSame
  BY <1>1, <1>2 DEF RestoresTheSame
<1> QED
  BY <1>3, InvHolds, PTL

\* For every two settings of a plain container outside a network: with one
\* identity they ask both backends for the same sandbox (reuse.rs:18-27).
THEOREM OneIdentityOneSandbox == Spec => []Interchangeable
<1>1. ASSUME IInv, ~opts.network, NEW o \in Options, ~o.network, NEW e, NEW tcp,
             NEW ports,
             Identity(tcp, e, o) = Identity(tcp, e, opts)
      PROVE  ContainerSpec(o, e, MergePortBindings(ports, [p \in o.udp |-> p]),
                           FALSE, None)
               = ContainerSpec(opts, e,
                               MergePortBindings(ports, [p \in opts.udp |-> p]),
                               FALSE, None)
  <2>1. o \in Settings /\ opts \in Settings
    BY <1>1 DEF IInv, UserInv, Options, Setting
  <2>2. o.links = {} /\ opts.links = {}
    BY <1>1, <2>1 DEF Settings
  <2>3. /\ o.command = opts.command /\ o.memory = opts.memory
        /\ o.files = opts.files /\ o.disk = opts.disk /\ o.tmpfs = opts.tmpfs
        /\ o.offline = opts.offline /\ o.udp = opts.udp
    <3> DEFINE one == Identity(tcp, e, o)
               other == Identity(tcp, e, opts)
    <3>1. /\ one.command = o.command /\ one.memory = o.memory
          /\ one.files = o.files /\ one.disk = o.disk /\ one.tmpfs = o.tmpfs
          /\ one.offline = o.offline /\ one.exposedUdp = o.udp
      BY DEF Identity
    <3>2. /\ other.command = opts.command /\ other.memory = opts.memory
          /\ other.files = opts.files /\ other.disk = opts.disk
          /\ other.tmpfs = opts.tmpfs /\ other.offline = opts.offline
          /\ other.exposedUdp = opts.udp
      BY DEF Identity
    <3>3. one = other
      BY <1>1
    <3> HIDE DEF one, other
    <3> QED
      BY <3>1, <3>2, <3>3
  <2> QED
    BY <2>2, <2>3 DEF ContainerSpec
<1>2. IInv => Interchangeable
  BY <1>1 DEF Interchangeable
<1> QED
  BY <1>2, InvHolds, PTL

-----------------------------------------------------------------------------
(* The types                                                               *)

\* no variable has more values than the default and those of the user's calls
SizeInv ==
  /\ attempt \in 1..Attempts /\ calls \in 0..Calls
  /\ \A k \in DOMAIN env : Len(env[k]) \in 1..calls + 1
ChoiceInv ==
  /\ supported \subseteq Backends /\ requested \in Backends \cup {None}
  /\ providers \in {{}, Backends} /\ active \in supported \cup {None}
FieldInv ==
  /\ pc \in Label
  /\ spec.files \subseteq {"/etc/own"} /\ sandbox.files \subseteq {"/etc/own"}
  /\ asked \in BOOLEAN /\ reported \in BOOLEAN
  /\ tm \in {None, "planned", "up", "failed"} /\ net \in {None, "open"}

LEMMA SizeStep ==
  ASSUME EnvInv, SizeInv, [Next]_vars
  PROVE  SizeInv'
<1>1. ASSUME NEW k \in preset.sets, NEW v \in {"mine", "other"}, SetVariable(k, v)
      PROVE  SizeInv'
  <2> DEFINE e == Without(env, preset.clears)
  <2>1. calls' = calls + 1 /\ calls' \in 0..Calls /\ attempt' = attempt
    BY <1>1, PresetsAssumption DEF SetVariable, SizeInv
  <2>2. env' = Push(e, k, v)
    BY <1>1 DEF SetVariable
  <2>3. \A n \in DOMAIN e : n \in DOMAIN env /\ e[n] = env[n]
    BY DEF Without
  <2>4. Len(Push(e, k, v)[k]) \in 1..calls + 2
    <3>1. CASE k \in DOMAIN e
      <4>1. PICK S : env[k] \in Seq(S)
        BY <2>3, <3>1 DEF EnvInv, Pushed
      <4>2. Push(e, k, v)[k] = Append(env[k], v)
        BY <2>3, <3>1 DEF Push
      <4>3. env[k] \in Seq(S \cup {v}) /\ v \in S \cup {v}
        BY <4>1
      <4>4. Len(Append(env[k], v)) = Len(env[k]) + 1
        BY <4>3
      <4>5. Len(env[k]) \in 1..calls + 1
        BY <2>3, <3>1 DEF SizeInv
      <4> QED
        BY <4>2, <4>4, <4>5 DEF SizeInv
    <3>2. CASE k \notin DOMAIN e
      <4>1. Push(e, k, v)[k] = <<v>>
        BY <3>2 DEF Push
      <4> QED
        BY <4>1 DEF SizeInv
    <3> QED
      BY <3>1, <3>2
  <2>5. \A n \in DOMAIN Push(e, k, v) \ {k} :
          n \in DOMAIN e /\ Push(e, k, v)[n] = e[n]
    BY DEF Push
  <2>6. \A n \in DOMAIN Push(e, k, v) : Len(Push(e, k, v)[n]) \in 1..calls + 2
    <3> TAKE n \in DOMAIN Push(e, k, v)
    <3>1. CASE n = k
      BY <2>4, <3>1
    <3>2. CASE n # k
      <4>1. Len(env[n]) \in 1..calls + 1 /\ Push(e, k, v)[n] = env[n]
        BY <2>3, <2>5, <3>2 DEF SizeInv
      <4> QED
        BY <4>1 DEF SizeInv
    <3> QED
      BY <3>1, <3>2
  <2>7. calls' + 1 = calls + 2
    BY <2>1 DEF SizeInv
  <2> QED
    BY <2>1, <2>2, <2>6, <2>7 DEF SizeInv
<1>2. ASSUME NEW k \in preset.sets, RemoveVariable(k)
      PROVE  SizeInv'
  <2>1. /\ calls' = calls + 1 /\ calls' \in 0..Calls /\ attempt' = attempt
        /\ env' = Without(env, {k})
    BY <1>2, PresetsAssumption DEF RemoveVariable, SizeInv
  <2>2. \A n \in DOMAIN env' : n \in DOMAIN env /\ env'[n] = env[n]
    BY <2>1 DEF Without
  <2>3. 1..calls + 1 \subseteq 1..calls' + 1
    BY <2>1 DEF SizeInv
  <2> QED
    BY <2>1, <2>2, <2>3 DEF SizeInv
<1>3. ASSUME NEW found \in BOOLEAN, FromTaken(found)
      PROVE  SizeInv'
  <2>1. calls' = 0 /\ attempt' = 1 /\ \A k \in DOMAIN env' : \E x : env'[k] = <<x>>
    BY <1>3 DEF FromTaken
  <2> QED
    BY <2>1, PresetsAssumption DEF SizeInv
<1>4. CASE UNCHANGED <<user, attempt>>
  BY <1>4 DEF user, SizeInv
<1>5. CASE Boot
  <2>1. attempt' \in 1..Attempts /\ UNCHANGED user
    BY <1>5, PresetsAssumption DEF Boot, SizeInv
  <2> QED
    BY <2>1 DEF user, SizeInv
<1>6. CASE WithTaskManager \/ StartedBefore \/ Start \/ Create \/ Checkpoint
  BY <1>4, <1>6 DEF WithTaskManager, StartedBefore, Start, Create, Checkpoint
<1>7. CASE Late \/ UNCHANGED vars
  BY <1>4, <1>7, LateFrame DEF vars
<1> QED
  BY <1>1, <1>2, <1>3, <1>5, <1>6, <1>7, Steps DEF Build

LEMMA ChoiceStep ==
  ASSUME ChoiceInv, [Next]_vars
  PROVE  ChoiceInv'
<1>1. \A registered : Resolve(registered) \in supported \cup {None}
  BY DEF Resolve
<1>2. CASE WithTaskManager \/ StartedBefore \/ Start
  BY <1>1, <1>2 DEF WithTaskManager, StartedBefore, Start, Activate, ChoiceInv
<1>3. CASE \E found \in BOOLEAN : FromTaken(found)
  BY <1>3 DEF FromTaken, ChoiceInv
<1>4. CASE UNCHANGED backends
  BY <1>4 DEF backends, ChoiceInv
<1>5. CASE \E k \in preset.sets, v \in {"mine", "other"} : SetVariable(k, v)
  BY <1>4, <1>5 DEF SetVariable
<1>6. CASE \E k \in preset.sets : RemoveVariable(k)
  BY <1>4, <1>6 DEF RemoveVariable
<1>7. CASE Create \/ Boot \/ Checkpoint
  BY <1>4, <1>7 DEF Create, Boot, Checkpoint
<1>8. CASE Late \/ UNCHANGED vars
  BY <1>4, <1>8, LateFrame DEF vars
<1> QED
  BY <1>2, <1>3, <1>5, <1>6, <1>7, <1>8, Steps DEF Build

LEMMA FieldStep ==
  ASSUME UserInv, SpecInv, BoxInv, FieldInv, [Next]_vars
  PROVE  FieldInv'
<1> USE DEF FieldInv, Label, server, box, None
<1>1. CASE \E k \in preset.sets, v \in {"mine", "other"} : SetVariable(k, v)
  BY <1>1 DEF SetVariable
<1>2. CASE \E k \in preset.sets : RemoveVariable(k)
  BY <1>2 DEF RemoveVariable
<1>3. CASE WithTaskManager \/ StartedBefore \/ Start
  BY <1>3 DEF WithTaskManager, StartedBefore, Start, Activate
<1>4. CASE Create
  <2>1. spec'.files = opts.files
    BY <1>4, SpecFields DEF Create
  <2>2. opts.files \subseteq {"/etc/own"}
    BY DEF UserInv, Settings
  <2> QED
    BY <1>4, <2>1, <2>2 DEF Create
<1>5. NoSandbox.files = {} /\ NoSpec.files = {}
  BY DEF NoSandbox, NoSpec, ContainerSpec, Default
<1>6. CASE Boot
  <2>1. Made.files = spec.files
    BY DEF Made, CreateBody, Restore, Run
  <2> QED
    BY <1>6, <2>1 DEF Boot
<1>7. CASE Checkpoint
  <2>1. pc = "up" /\ UNCHANGED <<spec, tm, net>>
    BY <1>7 DEF Checkpoint
  <2>2. spec = Customized
    BY <2>1 DEF SpecInv, Later, Running
  <2>3. ASSUME NEW captured
        PROVE  Restore(Rebooted(captured)).files = spec.files
    <3>1. Rebooted(captured).files = spec.files
      BY <2>2, RebootedFields
    <3> QED
      BY <3>1 DEF Restore
  <2>4. CASE Commit
    BY <2>1, <2>4 DEF Commit
  <2>5. ASSUME NEW captured, Cycle(captured)
        PROVE  FieldInv'
    <3>1. \/ /\ sandbox' = Restore(Rebooted(captured)) /\ pc' = "rewait"
             /\ UNCHANGED <<asked, reported>>
          \/ pc' = "failed" /\ asked' = FALSE /\ reported' = FALSE
             /\ sandbox' = NoSandbox
      BY <2>5 DEF Cycle, Rebooted, Ended
    <3>2. sandbox'.files \subseteq {"/etc/own"}
      BY <1>5, <2>3, <3>1
    <3> QED
      BY <2>1, <3>1, <3>2
  <2> QED
    BY <1>7, <2>4, <2>5 DEF Checkpoint
<1>8. CASE \E found \in BOOLEAN : FromTaken(found)
  BY <1>5, <1>8 DEF FromTaken
<1>9. CASE Probe \/ Deadline \/ Register \/ Initiate \/ Elect
  BY <1>5, <1>9 DEF Probe, Deadline, Register, Initiate, Elect, Ended
<1>10. CASE Pair \/ Stop \/ Rewait
  BY <1>5, <1>10 DEF Pair, Stop, Rewait, Ended
<1>11. CASE Advance \/ Crash \/ UNCHANGED vars
  BY <1>11 DEF Advance, Crash, vars
<1> QED
  BY <1>1, <1>2, <1>3, <1>4, <1>6, <1>7, <1>8, <1>9, <1>10, <1>11, Steps
  DEF Build, Late

\* The fields of a builder, of start() and of a guard have their types, and
\* a variable no more values than there were calls (container.rs:263-293).
THEOREM PresetTypes == Spec => []TypeOK
<1> DEFINE I == IInv /\ SizeInv /\ ChoiceInv /\ FieldInv
<1>1. Init => I
  <2> SUFFICES ASSUME Init PROVE SizeInv /\ ChoiceInv /\ FieldInv
    BY InitInv
  <2>1. \A k \in DOMAIN env : \E x : env[k] = <<x>>
    BY DEF Init
  <2>2. SizeInv
    <3>1. calls = 0 /\ attempt = 1
      BY DEF Init
    <3> QED
      BY <2>1, <3>1, PresetsAssumption DEF SizeInv
  <2>3. ChoiceInv
    BY DEF Init, ChoiceInv
  <2>4. FieldInv
    BY DEF Init, FieldInv, Label, NoSandbox, NoSpec, ContainerSpec, Default, None
  <2> QED
    BY <2>2, <2>3, <2>4
<1>2. I /\ [Next]_vars => I'
  BY InvStep, SizeStep, ChoiceStep, FieldStep DEF IInv
<1>3. I => TypeOK
  <2> SUFFICES ASSUME I PROVE TypeOK
    OBVIOUS
  <2>1. \A k \in DOMAIN env : Len(env[k]) \in 1..Calls + 1
    <3>1. 1..calls + 1 \subseteq 1..Calls + 1
      BY PresetsAssumption DEF SizeInv
    <3> QED
      BY <3>1 DEF SizeInv
  <2>2. cp.backend \in Backends \cup {None} /\ from.backend \in Backends \cup {None}
    <3>1. NoCheckpoint.backend = None
      BY DEF NoCheckpoint
    <3> QED
      BY <3>1 DEF IInv, CpInv, UserInv, Faithful
  <2>3. opts \in Settings /\ DOMAIN told = preset.sets
    BY DEF IInv, UserInv, EnvInv
  <2>4. stage \in 0..Len(preset.boot) /\ logs \in Seq(Lines)
    BY DEF IInv, StageInv
  <2> QED
    BY <2>1, <2>2, <2>3, <2>4 DEF TypeOK, SizeInv, ChoiceInv, FieldInv
<1> QED
  BY <1>1, <1>2, <1>3, PTL DEF Spec
=============================================================================

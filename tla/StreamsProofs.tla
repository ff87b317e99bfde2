---------------------------- MODULE StreamsProofs ---------------------------
(***************************************************************************)
(* Proofs about Streams, for any followers, any number of lines and any    *)
(* links.                                                                  *)
(***************************************************************************)
EXTENDS Streams, FiniteSetTheorems, SequenceTheorems, TLAPS

-----------------------------------------------------------------------------
(* Types                                                                   *)

\* the reader, or the poller or the task, is on its way to the consumer
Held == reader \in {"holds", "flushes"}
Hands == follow \in {"hand", "handlast"}

\* what the types of the lines handed over rest on: a torn line and the line
\* of a part in the pipe are there, who has a line in hand has counted it, and
\* what was fetched was of the log's last lines, which the poller is not past
CountInv ==
  /\ torn => lines >= 1
  /\ part => pipe < lines
  /\ Hands => cursor >= 1
  /\ Held => count >= 1
  /\ base <= Before(lines) /\ fetched <= Shown(lines)
  /\ kind = "polled" => cursor <= fetched
  /\ kind = "task" => base = 0
BaseInv == TypeOK /\ CountInv

\* The steps of the follower leave the sandbox, the tunnel and stop() alone,
\* and those of the others leave the follower alone.
FollowerStep ==
  \/ CloseFollow \/ CloseReturns \/ FollowExits \/ WatchdogFires \/ TaskFails
  \/ Following
TunnelStep ==
  \/ Install \/ LinkFails \/ Probe \/ Hosts \/ Forward \/ Tunnels
  \/ Accept \/ Working \/ StopBegins \/ Stopping \/ DropGuard
OtherStep == Write \/ Exit \/ TunnelStep

LEMMA Steps == Next <=> FollowerStep \/ OtherStep
BY DEF Next, FollowerStep, OtherStep, TunnelStep

LEMMA OthersAside == OtherStep => UNCHANGED follower
BY DEF OtherStep, TunnelStep, Write, Exit, Install, LinkFails, Probe, Hosts,
       Forward, Tunnels, Accept, Working, Leave, Spawn, Publish, Unheard,
       Connect, PublishTarget, PumpEnds, KillCurrent, StopBegins, Stopping,
       SetClosed, KillListener, Sever, Join, MsbStop, DropGuard

LEMMA FollowerAside ==
  FollowerStep => UNCHANGED <<sandbox, kind, linking, tunnel, stop>>
BY DEF FollowerStep, Following, CloseFollow, CloseReturns, FollowExits,
       WatchdogFires, TaskFails, Relay, RelayPart, ReadLine, HandLine, ReadEnd,
       HandPart, Proxy, Killer, WatchdogLeaves, TakeReader, Snapshot, FetchTail, Replay,
       PollLeaves, PollList, PollLogs, PollLast, PollNext, PollHand, PollRound,
       TaskLeaves, TaskNext, TaskHand, TaskEnds

\* What a fetch shows of a log, and what came before: both grow with the log.
LEMMA Window ==
  ASSUME NEW m \in Nat, NEW n \in Nat, m <= n
  PROVE  /\ Before(m) \in 0..m /\ Shown(m) \in 0..m
         /\ Before(m) + Shown(m) = m
         /\ Before(m) <= Before(n) /\ Shown(m) <= Shown(n)
<1>1. LogTail \in Nat
  BY StreamsAssumption
<1> QED
  BY <1>1 DEF Before, Shown

\* A sandbox that has ended stays so, with its log.
LEMMA SandboxStep ==
  ASSUME TypeOK, CountInv, OtherStep
  PROVE  /\ up' => up
         /\ up' \in BOOLEAN /\ torn' \in BOOLEAN /\ lines' \in 0..MaxLines
         /\ torn' => lines' >= 1
         /\ lines <= lines'
<1>0. /\ up \in BOOLEAN /\ torn \in BOOLEAN /\ lines \in 0..MaxLines
      /\ MaxLines \in Nat /\ (torn => lines >= 1)
  BY StreamsAssumption DEF TypeOK, CountInv
<1>1. CASE Write
  <2>1. up' = up /\ torn' \in BOOLEAN
    BY <1>1 DEF Write
  <2>2. lines' \in 0..MaxLines /\ lines <= lines' /\ (torn' => lines' >= 1)
    BY <1>0, <1>1 DEF Write
  <2> QED
    BY <1>0, <2>1, <2>2
<1>2. CASE Exit \/ MsbStop \/ DropGuard
  <2>1. lines' = lines
    BY <1>2 DEF Exit, MsbStop, DropGuard
  <2>2. \/ Ends
        \/ up' = up /\ torn' = torn
    BY <1>2 DEF Exit, MsbStop, DropGuard
  <2>3. lines' \in 0..MaxLines /\ lines <= lines'
    BY <1>0, <2>1
  <2>4. CASE Ends
    BY <1>0, <2>1, <2>3, <2>4 DEF Ends
  <2>5. CASE up' = up /\ torn' = torn
    BY <1>0, <2>1, <2>3, <2>5
  <2> QED
    BY <2>2, <2>4, <2>5
<1>3. CASE UNCHANGED sandbox
  BY <1>0, <1>3 DEF sandbox
<1> QED
  BY <1>1, <1>2, <1>3
  DEF OtherStep, TunnelStep, Install, LinkFails, Probe, Hosts,
      Forward, Tunnels, Accept, Working, Leave, Spawn, Publish, Unheard,
      Connect, PublishTarget, PumpEnds, KillCurrent, StopBegins, Stopping,
      SetClosed, KillListener, Sever, Join

\* what a step of the tunnel may do to its variables, and to their types
TunnelTypes ==
  /\ link \in {"asked", "probe", "hosts", "udp", "tunnels", "linked", "failed"}
  /\ batch \in Links[kind] \cup {<<>>}
  /\ worker \in {"none", "loop", "spawned", "listens", "connects", "publishes",
                 "pumps", "kills", "gone"}
  /\ nc \in {"none", "runs", "dead"}
  /\ current \in BOOLEAN /\ target \in BOOLEAN /\ severed \in BOOLEAN
  /\ serves \in 0..MaxServes
  /\ stop \in {"no", "closes", "kills", "severs", "joins", "stops", "returned",
               "dropped"}

LEMMA TunnelTypesStep ==
  ASSUME TypeOK, OtherStep
  PROVE  TunnelTypes'
<1> USE StreamsAssumption DEF TypeOK, TunnelTypes
<1>0. kind' = kind
  BY OthersAside DEF follower
<1>1. CASE Write \/ Exit
  BY <1>0, <1>1 DEF Write, Exit, Ends, tunnel, linking
<1>2. CASE Install \/ LinkFails \/ Probe \/ Hosts \/ Forward
  BY <1>0, <1>2 DEF Install, LinkFails, Probe, Hosts, Forward, tunnel
<1>3. CASE Tunnels \/ Accept
  BY <1>0, <1>3 DEF Tunnels, Accept, linking
<1>4. CASE Leave
  BY <1>0, <1>4 DEF Leave, linking
<1>9. CASE Publish
  BY <1>0, <1>9 DEF Publish, linking
<1>8. CASE Unheard \/ KillCurrent
  BY ZenonT(40), <1>0, <1>8 DEF Unheard, KillCurrent, linking
<1>6. CASE Spawn \/ Connect
  BY <1>0, <1>6 DEF Spawn, Connect, linking
<1>7. CASE PublishTarget \/ PumpEnds
  BY ZenonT(40), <1>0, <1>7 DEF PublishTarget, PumpEnds, linking
<1>5. CASE StopBegins \/ Stopping \/ DropGuard
  BY <1>0, <1>5 DEF StopBegins, Stopping, SetClosed, KillListener, Sever, Join,
              MsbStop, DropGuard, Ends, linking, tunnel
<1> QED
  BY <1>1, <1>2, <1>3, <1>4, <1>5, <1>6, <1>7, <1>8, <1>9
  DEF OtherStep, TunnelStep, Working

\* the same for the follower
FollowerTypes ==
  /\ kind \in Kinds /\ late \in Nat
  /\ close \in {"open", "asked", "closed"} /\ faulted \in BOOLEAN
  /\ follow \in {"poll", "snapshot", "fetch", "replay", "logs", "hand", "tail",
                 "last", "handlast", "end"}
  /\ count \in 0..MaxLines /\ cursor \in 0..MaxLines
  /\ fetched \in 0..MaxLines /\ base \in 0..MaxLines /\ cut \in BOOLEAN
  /\ child \in {"runs", "killed", "exited"} /\ pipe \in 0..MaxLines
  /\ part \in BOOLEAN
  /\ reader \in {"reads", "holds", "flushes", "ended"}
  /\ joiner \in {"none", "proxy", "watchdog"}
HandInv ==
  /\ part => pipe < lines
  /\ Hands => cursor >= 1
  /\ Held => count >= 1
  /\ base <= Before(lines) /\ fetched <= Shown(lines)
  /\ kind = "polled" => cursor <= fetched
  /\ kind = "task" => base = 0

LEMMA WholeLines ==
  ASSUME TypeOK, CountInv
  PROVE  Whole \in 0..MaxLines /\ Whole <= lines
BY StreamsAssumption DEF TypeOK, CountInv, Whole

LEMMA FollowerTypesStep ==
  ASSUME TypeOK, CountInv, FollowerStep
  PROVE  FollowerTypes'
<1>w. Before(lines) \in 0..MaxLines /\ Shown(lines) \in 0..MaxLines
  <2>1. lines \in Nat /\ lines <= MaxLines /\ MaxLines \in Nat
    BY StreamsAssumption DEF TypeOK
  <2>2. /\ Before(lines) \in 0..lines /\ Shown(lines) \in 0..lines
    BY <2>1, Window
  <2> QED
    BY <2>1, <2>2
<1> USE StreamsAssumption DEF TypeOK, CountInv, FollowerTypes
<1>1. CASE CloseFollow \/ CloseReturns
  BY <1>1 DEF CloseFollow, CloseReturns, consumer, piped, fetch
<1>2. CASE FollowExits \/ WatchdogFires
  BY ZenonT(40), <1>2 DEF FollowExits, WatchdogFires, consumer, piped, fetch
<1>3. CASE TaskFails
  BY <1>3, WholeLines DEF TaskFails, consumer, piped
<1>4. CASE Relay
  <2>1. pipe' = pipe + 1 /\ pipe' \in 0..MaxLines /\ part' = FALSE
    BY <1>4, WholeLines DEF Relay
  <2>2. UNCHANGED <<kind, late, close, faulted, follow, count, cursor, fetched,
                    base, cut, child, reader, joiner>>
    BY <1>4 DEF Relay, consumer, fetch
  <2> QED
    BY ZenonT(40), <2>1, <2>2
<1>19. CASE RelayPart
  BY <1>19 DEF RelayPart, consumer, fetch
<1>5. CASE ReadLine
  BY <1>5 DEF ReadLine, consumer
<1>6. CASE HandLine
  BY <1>6 DEF HandLine, Consume, fetch
<1>21. CASE HandPart
  BY <1>21 DEF HandPart, Consume, fetch
<1>7. CASE ReadEnd
  BY <1>7 DEF ReadEnd, consumer
<1>20. CASE Proxy
  BY <1>20 DEF Proxy, consumer, fetch
<1>8. CASE Killer \/ WatchdogLeaves
  BY <1>8 DEF Killer, WatchdogLeaves, consumer, fetch, piped
<1>9. CASE TakeReader \/ Snapshot
  BY <1>9 DEF TakeReader, Snapshot, consumer, fetch, piped
<1>10. CASE FetchTail
  <2>1. CASE Fetched(Shown(lines)) /\ UNCHANGED faulted /\ follow' = "replay"
    BY <1>w, <1>10, <2>1 DEF FetchTail, Fetched, consumer, piped
  <2>2. CASE UNCHANGED <<fetched, base, cut>> /\ faulted' = TRUE /\ follow' = "end"
    BY <1>10, <2>2 DEF FetchTail, consumer, piped
  <2> QED
    BY <1>10, <2>1, <2>2 DEF FetchTail
<1>11. CASE Replay
  BY <1>11 DEF Replay, Consume, consumer, piped
<1>12. CASE PollLeaves \/ PollList
  BY <1>12 DEF PollLeaves, PollList, consumer, fetch, piped
<1>13. CASE PollLogs
  BY <1>w, <1>13 DEF PollLogs, Fetched, consumer, piped
<1>14. CASE PollLast
  <2>1. CASE Fetched(Shown(lines)) /\ UNCHANGED faulted /\ follow' = "tail"
    BY <1>w, <1>14, <2>1 DEF PollLast, Fetched, consumer, piped
  <2>2. CASE UNCHANGED <<fetched, base, cut>> /\ faulted' \in BOOLEAN /\ follow' = "end"
    BY <1>14, <2>2 DEF PollLast, consumer, piped
  <2> QED
    BY <1>14, <2>1, <2>2 DEF PollLast
<1>15. CASE PollNext
  BY <1>15 DEF PollNext, consumer, piped
<1>16. CASE PollHand \/ TaskHand
  BY SMTT(30), <1>16 DEF PollHand, TaskHand, Consume, fetch, piped
<1>17. CASE PollRound \/ TaskLeaves \/ TaskEnds
  BY <1>17 DEF PollRound, TaskLeaves, TaskEnds, consumer, fetch, piped
<1>18. CASE TaskNext
  BY <1>18, WholeLines DEF TaskNext, consumer, piped
<1> QED
  BY <1>1, <1>2, <1>3, <1>4, <1>5, <1>6, <1>7, <1>8, <1>9, <1>10, <1>11,
     <1>12, <1>13, <1>14, <1>15, <1>16, <1>17, <1>18, <1>19, <1>20, <1>21
  DEF FollowerStep, Following

LEMMA HandInvStep ==
  ASSUME TypeOK, CountInv, FollowerStep
  PROVE  HandInv'
<1>0. /\ kind' = kind /\ lines' = lines
      /\ kind \in {"piped", "polled", "task"}
      /\ lines \in Nat /\ count \in Nat /\ cursor \in Nat /\ fetched \in Nat
      /\ pipe \in Nat /\ base \in Nat /\ part \in BOOLEAN
  BY FollowerAside, StreamsAssumption DEF TypeOK, sandbox
<1>w. Before(lines) \in Nat /\ Shown(lines) \in Nat
  BY <1>0, Window
<1>a. ASSUME UNCHANGED <<part, pipe, count, cursor, fetched, base>>,
             Held' => Held, Hands' => Hands
      PROVE  HandInv'
  BY <1>0, <1>a DEF CountInv, HandInv
<1>1. CASE CloseFollow \/ CloseReturns \/ Killer \/ Proxy \/ TakeReader
  BY <1>1, <1>a DEF CloseFollow, CloseReturns, Killer, Proxy, TakeReader,
                    fetch, piped, Held, Hands
<1>2. CASE FollowExits \/ WatchdogFires \/ WatchdogLeaves
  BY <1>2, <1>a DEF FollowExits, WatchdogFires, WatchdogLeaves, fetch, piped,
                    Held, Hands
<1>3. CASE HandLine \/ HandPart
  BY <1>3, <1>a DEF HandLine, HandPart, fetch, Held, Hands
<1>4. CASE PollLeaves \/ PollList \/ PollHand \/ PollRound
  BY <1>4, <1>a DEF PollLeaves, PollList, PollHand, PollRound, fetch, piped,
                    Held, Hands
<1>5. CASE TaskLeaves \/ TaskHand \/ TaskEnds
  BY <1>5, <1>a DEF TaskLeaves, TaskHand, TaskEnds, fetch, piped, Held, Hands
<1>6. CASE Relay \/ RelayPart
  <2>1. UNCHANGED <<count, cursor, fetched, base, reader, follow>>
    BY <1>6 DEF Relay, RelayPart, fetch
  <2>2. part' => pipe' < lines'
    BY <1>0, <1>6 DEF Relay, RelayPart
  <2> QED
    BY <1>0, <2>1, <2>2 DEF CountInv, HandInv, Held, Hands
<1>7. CASE ReadLine \/ ReadEnd
  <2>1. UNCHANGED <<cursor, fetched, base, part, pipe, follow>>
    BY <1>7 DEF ReadLine, ReadEnd
  <2>2. count' = count + 1 \/ ~Held'
    BY <1>7 DEF ReadLine, ReadEnd, Held
  <2>3. Held' => count' >= 1
    BY <1>0, <2>2
  <2> QED
    BY <1>0, <2>1, <2>3 DEF CountInv, HandInv, Hands
<1>8. CASE Snapshot \/ Replay
  <2>1. /\ kind = "piped" /\ UNCHANGED <<count, fetched, base, part, pipe, reader>>
        /\ ~Hands'
    BY <1>8 DEF Snapshot, Replay, piped, Hands
  <2> QED
    BY <1>0, <2>1 DEF CountInv, HandInv, Held
<1>9. CASE FetchTail
  <2>1. /\ kind = "piped" /\ UNCHANGED <<count, cursor, part, pipe, reader>>
        /\ ~Hands'
    BY <1>9 DEF FetchTail, piped, Hands
  <2>2. base' <= Before(lines) /\ fetched' <= Shown(lines)
    BY <1>w, <1>9 DEF FetchTail, Fetched, CountInv
  <2> QED
    BY <1>0, <2>1, <2>2 DEF CountInv, HandInv, Held
<1>10. CASE PollLogs
  <2>1. /\ kind = "polled" /\ UNCHANGED <<count, cursor, part, pipe, reader>>
        /\ ~Hands'
    BY <1>10 DEF PollLogs, piped, Hands
  <2>2. cursor <= Shown(lines)
    BY <1>0, <1>w, <2>1 DEF CountInv
  <2>3. base' <= Before(lines) /\ fetched' <= Shown(lines) /\ cursor <= fetched'
    BY <1>0, <1>w, <1>10, <2>2 DEF PollLogs, Fetched
  <2> QED
    BY <1>0, <2>1, <2>3 DEF CountInv, HandInv, Held
<1>11. CASE PollLast
  <2>1. /\ kind = "polled" /\ UNCHANGED <<count, cursor, part, pipe, reader>>
        /\ ~Hands'
    BY <1>11 DEF PollLast, piped, Hands
  <2>2. cursor <= Shown(lines)
    BY <1>0, <1>w, <2>1 DEF CountInv
  <2>3. base' <= Before(lines) /\ fetched' <= Shown(lines) /\ cursor <= fetched'
    BY <1>0, <1>w, <1>11, <2>1, <2>2 DEF PollLast, Fetched, CountInv
  <2> QED
    BY <1>0, <2>1, <2>3 DEF CountInv, HandInv, Held
<1>12. CASE PollNext
  <2>1. /\ UNCHANGED <<count, fetched, base, part, pipe, reader>>
        /\ cursor' = cursor + 1 /\ cursor < fetched
    BY <1>12 DEF PollNext, piped
  <2> QED
    BY <1>0, <2>1 DEF CountInv, HandInv, Held
<1>13. CASE TaskNext \/ TaskFails
  <2>1. kind = "task" /\ UNCHANGED <<count, fetched, base, part, pipe, reader>>
    BY <1>13 DEF TaskNext, TaskFails, piped
  <2>2. Hands' => cursor' >= 1
    BY <1>0, <1>13 DEF TaskNext, TaskFails, Hands, CountInv
  <2> QED
    BY <1>0, <2>1, <2>2 DEF CountInv, HandInv, Held
<1> QED
  BY <1>1, <1>2, <1>3, <1>4, <1>5, <1>6, <1>7, <1>8, <1>9, <1>10, <1>11,
     <1>12, <1>13
  DEF FollowerStep, Following

\* The follower hands a line that the log has to the consumer, or none; in part
\* only what it fetched in part, or the reader's last.
MayCut == cut /\ (kind = "polled" => Hands)
Flushed(n) == kind = "piped" /\ reader = "flushes" /\ n = count /\ count' = count /\ reader' = "ended"
Handed(n) == \E c \in BOOLEAN : Consume(n, c) /\ (c => MayCut \/ Flushed(n))
LEMMA ReaderHands ==
  ASSUME HandLine \/ HandPart
  PROVE  Handed(count)
<1>1. CASE HandLine
  <2>1. Consume(count, FALSE) /\ FALSE \in BOOLEAN
    BY <1>1 DEF HandLine
  <2> QED
    BY <2>1 DEF Handed
<1>2. CASE HandPart
  <2>1. Flushed(count)
    BY <1>2 DEF HandPart, Flushed, fetch
  <2>2. PICK c \in BOOLEAN : Consume(count, c)
    BY <1>2 DEF HandPart
  <2> QED
    BY <2>1, <2>2 DEF Handed
<1> QED
  BY <1>1, <1>2

LEMMA ReplayHands ==
  ASSUME TypeOK, CountInv, Replay, cursor < fetched
  PROVE  base + cursor + 1 \in Lines /\ Handed(base + cursor + 1)
<1>0. /\ base \in Nat /\ cursor \in Nat /\ fetched \in Nat /\ lines \in 0..MaxLines
      /\ MaxLines \in Nat /\ base <= Before(lines) /\ fetched <= Shown(lines)
      /\ cut \in BOOLEAN
  BY StreamsAssumption DEF TypeOK, CountInv
<1>w. /\ Before(lines) \in 0..lines /\ Shown(lines) \in 0..lines
      /\ Before(lines) + Shown(lines) = lines
  BY <1>0, Window
<1>1. base + cursor + 1 \in Lines
  BY <1>0, <1>w DEF Lines
<1>2. (cut /\ cursor + 1 = fetched) \in BOOLEAN
  BY <1>0
<1>3. Consume(base + cursor + 1, cut /\ cursor + 1 = fetched) /\ kind = "piped"
  BY DEF Replay
<1> QED
  BY <1>1, <1>2, <1>3 DEF Handed, MayCut

LEMMA LineHands ==
  ASSUME TypeOK, CountInv, PollHand \/ TaskHand
  PROVE  base + cursor \in Lines /\ Handed(base + cursor)
<1>0. /\ base \in Nat /\ cursor \in 0..MaxLines /\ fetched \in Nat
      /\ lines \in 0..MaxLines /\ MaxLines \in Nat
      /\ base <= Before(lines) /\ fetched <= Shown(lines)
      /\ kind = "polled" => cursor <= fetched
      /\ kind = "task" => base = 0
      /\ cut \in BOOLEAN
  BY StreamsAssumption DEF TypeOK, CountInv
<1>w. /\ Before(lines) \in 0..lines /\ Shown(lines) \in 0..lines
      /\ Before(lines) + Shown(lines) = lines
  BY <1>0, Window
<1>h. Hands /\ cursor >= 1
  BY DEF PollHand, TaskHand, CountInv, Hands
<1>1. CASE PollHand
  <2>1. base + cursor \in Lines
    BY <1>0, <1>w, <1>h, <1>1 DEF PollHand, Lines
  <2>2. (cut /\ cursor = fetched) \in BOOLEAN
    BY <1>0
  <2>3. Consume(base + cursor, cut /\ cursor = fetched)
    BY <1>1 DEF PollHand
  <2> QED
    BY <1>h, <2>1, <2>2, <2>3 DEF Handed, MayCut
<1>2. CASE TaskHand
  <2>1. kind = "task" /\ Consume(cursor, cut)
    BY <1>2 DEF TaskHand
  <2>2. base + cursor = cursor /\ cursor \in Lines
    BY <1>0, <1>h, <2>1 DEF Lines
  <2> QED
    BY <1>0, <2>1, <2>2 DEF Handed, MayCut
<1> QED
  BY <1>1, <1>2

\* Only these steps call the consumer.
LEMMA WhatIsHanded ==
  ASSUME TypeOK, CountInv, FollowerStep
  PROVE  \/ UNCHANGED consumer
         \/ \E n \in Lines : Handed(n)
<1>1. CASE HandLine \/ HandPart
  <2>0. Held
    BY <1>1 DEF HandLine, HandPart, Held
  <2>1. count \in Lines
    BY <2>0, StreamsAssumption DEF TypeOK, CountInv, Lines
  <2> QED
    BY <1>1, <2>1, ReaderHands
<1>2. CASE Replay
  <2>1. CASE cursor < fetched
    BY <1>2, <2>1, ReplayHands
  <2>2. CASE ~(cursor < fetched)
    BY <1>2, <2>2 DEF Replay
  <2> QED
    BY <2>1, <2>2
<1>3. CASE PollHand \/ TaskHand
  BY <1>3, LineHands
<1> QED
  BY <1>1, <1>2, <1>3
  DEF FollowerStep, Following, CloseFollow, CloseReturns, FollowExits,
      WatchdogFires, TaskFails, Relay, RelayPart, ReadLine, ReadEnd, Proxy,
      Killer, WatchdogLeaves, TakeReader, Snapshot, FetchTail, PollLeaves,
      PollList, PollLogs, PollLast, PollNext, PollRound, TaskLeaves, TaskNext,
      TaskEnds

LEMMA BaseStep == BaseInv /\ [Next]_vars => BaseInv'
<1> SUFFICES ASSUME BaseInv, [Next]_vars PROVE BaseInv'
  OBVIOUS
<1> USE DEF BaseInv
<1>1. CASE FollowerStep
  <2>1. FollowerTypes' /\ HandInv'
    BY <1>1, FollowerTypesStep, HandInvStep
  <2>2. out' \in Seq(Item)
    <3>1. CASE UNCHANGED consumer
      BY <3>1 DEF consumer, TypeOK
    <3>2. ASSUME NEW n \in Lines, Handed(n) PROVE out' \in Seq(Item)
      <4>1. PICK c \in BOOLEAN : Consume(n, c)
        BY <3>2 DEF Handed
      <4>2. [line |-> n, cut |-> c] \in Item
        BY DEF Item, Lines
      <4> QED
        BY <4>1, <4>2, AppendProperties DEF Consume, TypeOK
    <3> QED
      BY <1>1, <3>1, <3>2, WhatIsHanded
  <2>3. UNCHANGED <<sandbox, kind, linking, tunnel, stop>>
    BY <1>1, FollowerAside
  <2> QED
    BY <2>1, <2>2, <2>3
    DEF TypeOK, CountInv, FollowerTypes, HandInv, sandbox, linking, tunnel
<1>2. CASE OtherStep
  <2>1. TunnelTypes'
    BY <1>2, TunnelTypesStep
  <2>2. /\ up' \in BOOLEAN /\ torn' \in BOOLEAN /\ lines' \in 0..MaxLines
        /\ torn' => lines' >= 1
        /\ lines <= lines'
    BY <1>2, SandboxStep
  <2>3. UNCHANGED <<kind, out, late, close, faulted, follow, count, cursor, fetched,
                    base, cut, child, pipe, part, reader, joiner>>
    BY <1>2, OthersAside DEF follower, fetch, piped
  <2>4. lines \in Nat /\ lines' \in Nat
    BY <2>2 DEF TypeOK
  <2>5. /\ Before(lines) <= Before(lines)' /\ Shown(lines) <= Shown(lines)'
        /\ Before(lines) \in Nat /\ Shown(lines) \in Nat
        /\ Before(lines)' \in Nat /\ Shown(lines)' \in Nat
    BY <2>2, <2>4, Window
  <2>6. base' <= Before(lines)' /\ fetched' <= Shown(lines)' /\ (part' => pipe' < lines')
    BY <2>2, <2>3, <2>4, <2>5 DEF TypeOK, CountInv
  <2>7. CountInv'
    BY <2>2, <2>3, <2>6 DEF CountInv, Held, Hands
  <2> QED
    BY <2>1, <2>2, <2>3, <2>7 DEF TypeOK, TunnelTypes
<1>3. CASE UNCHANGED vars
  BY <1>3 DEF vars, TypeOK, CountInv, follower, fetch, piped, linking, tunnel,
              Held, Hands
<1> QED
  BY <1>1, <1>2, <1>3, Steps

LEMMA InitBase == Init => BaseInv
<1> SUFFICES ASSUME Init PROVE BaseInv
  OBVIOUS
<1>1. 0 \in 0..MaxLines /\ 0 \in 0..MaxServes
  BY StreamsAssumption
<1>2. <<>> \in Seq(Item)
  OBVIOUS
<1>3. Before(lines) = 0 /\ Shown(lines) = 0
  BY Window DEF Init
<1>4. TypeOK
  BY <1>1, <1>2 DEF Init, TypeOK
<1>5. CountInv
  BY <1>3 DEF Init, CountInv, Held, Hands
<1> QED
  BY <1>4, <1>5 DEF BaseInv

LEMMA TypesKept == Spec => []BaseInv
BY InitBase, BaseStep, PTL DEF Spec

\* Every variable keeps its type: a line that is handed over is a line of the
\* log, and no counter passes the lines written. (watchdog.rs, exec_tunnel.rs)
THEOREM TypeCorrect == Spec => []TypeOK
BY TypesKept, PTL DEF BaseInv

-----------------------------------------------------------------------------
(* The tunnel and stop()                                                   *)

\* Only what is linked has a worker, a worker outside of a connection has no
\* listener, nothing is linked any more once stop() has begun, and msb stop
\* runs when the worker has ended.
TunnelInv ==
  /\ worker # "none" => link = "linked"
  /\ worker \in {"none", "loop", "gone"} => nc = "none"
  /\ stop # "no" => link \in {"linked", "failed"}
  /\ stop \in {"stops", "returned"} => worker \in {"none", "gone"}

LEMMA TunnelInvStep ==
  ASSUME TypeOK, TunnelInv, OtherStep
  PROVE  TunnelInv'
<1> USE DEF TunnelInv
<1>1. CASE Write \/ Exit
  BY <1>1 DEF Write, Exit, Ends, tunnel, linking
<1>2. CASE Install \/ LinkFails \/ Probe \/ Hosts \/ Forward
  BY <1>2 DEF Install, LinkFails, Probe, Hosts, Forward, tunnel
<1>3. CASE Tunnels
  <2>1. stop = "no" /\ stop' = "no"
    BY <1>3 DEF Tunnels
  <2>2. link' = "linked" /\ nc = "none" /\ nc' = nc
    BY <1>3 DEF Tunnels
  <2> QED
    BY <2>1, <2>2
<1>4. CASE Leave \/ Spawn
  BY <1>4 DEF Leave, Spawn, linking, Closed
<1>5. CASE Publish \/ Accept \/ Unheard \/ Connect \/ PublishTarget \/ PumpEnds
  BY <1>5 DEF Publish, Accept, Unheard, Connect, PublishTarget, PumpEnds, linking
<1>6. CASE KillCurrent
  BY <1>6 DEF KillCurrent, linking
<1>7. CASE StopBegins
  BY <1>7 DEF StopBegins, linking, tunnel
<1>8. CASE SetClosed \/ KillListener \/ Sever \/ Join
  BY <1>8 DEF SetClosed, KillListener, Sever, Join, linking, tunnel
<1>9. CASE MsbStop \/ DropGuard
  BY <1>9 DEF MsbStop, DropGuard, Ends, linking
<1> QED
  BY <1>1, <1>2, <1>3, <1>4, <1>5, <1>6, <1>7, <1>8, <1>9
  DEF OtherStep, TunnelStep, Working, Stopping

\* stop() takes the tunnel down before the sandbox: when msb stop runs, and
\* after it, the worker has ended and no msb exec of it is alive.
\* (MsbCliBackend::stop, ExecTunnel::drop)
THEOREM StoppedAfterTunnels == Spec => []TunnelsFirst
<1>1. Init => TunnelInv
  BY DEF Init, TunnelInv
<1>2. BaseInv /\ TunnelInv /\ [Next]_vars => TunnelInv'
  <2> SUFFICES ASSUME BaseInv, TunnelInv, [Next]_vars PROVE TunnelInv'
    OBVIOUS
  <2>1. CASE FollowerStep
    BY <2>1, FollowerAside DEF TunnelInv, linking, tunnel
  <2>2. CASE OtherStep
    BY <2>2, TunnelInvStep DEF BaseInv
  <2>3. CASE UNCHANGED vars
    BY <2>3 DEF TunnelInv, vars, linking, tunnel
  <2> QED
    BY <2>1, <2>2, <2>3, Steps
<1>3. TunnelInv => TunnelsFirst
  BY DEF TunnelInv, TunnelsFirst
<1> QED
  BY <1>1, <1>2, <1>3, TypesKept, PTL DEF Spec

-----------------------------------------------------------------------------
(* After close()                                                           *)

\* A follower made of threads has ended when close() has returned, where the
\* watchdog had the reader's handle because the reader had ended before it
\* went on; an aborted task had at most one line in hand.
CloseInv ==
  /\ kind = "piped" /\ joiner = "watchdog" =>
       follow = "snapshot" \/ reader = "ended"
  /\ kind = "piped" /\ close = "closed" => follow = "end" /\ reader = "ended"
  /\ kind = "polled" /\ close = "closed" => follow = "end"
  /\ close # "closed" \/ kind # "task" => late = 0
  /\ late <= IF kind = "task" /\ follow \notin {"hand", "handlast"} THEN 1 ELSE 0

LEMMA CloseInvStep ==
  ASSUME TypeOK, CloseInv, FollowerStep
  PROVE  CloseInv'
<1>0. /\ close \in {"open", "asked", "closed"}
      /\ late \in Nat
  BY DEF TypeOK
<1> USE DEF CloseInv
<1>1. CASE CloseFollow
  BY <1>0, <1>1 DEF CloseFollow, consumer, piped
<1>2. CASE CloseReturns
  <2>1. CASE kind = "task"
    BY <1>0, <1>2, <2>1 DEF CloseReturns, consumer, piped
  <2>2. CASE kind = "polled"
    BY <1>0, <1>2, <2>2 DEF CloseReturns, Joined, consumer, piped
  <2>3. CASE kind = "piped"
    <3>1. follow = "end" /\ reader = "ended"
      BY <1>2, <2>3 DEF CloseReturns, Joined
    <3> QED
      BY <1>0, <1>2, <2>3, <3>1 DEF CloseReturns, consumer, piped
  <2> QED
    BY <2>1, <2>2, <2>3, StreamsAssumption DEF TypeOK
<1>3. CASE FollowExits \/ WatchdogFires
  BY <1>0, <1>3 DEF FollowExits, WatchdogFires, consumer, piped
<1>4. CASE TaskFails
  BY <1>0, <1>4 DEF TaskFails, consumer, piped
<1>5. CASE Relay \/ RelayPart \/ ReadLine
  BY <1>0, <1>5 DEF Relay, RelayPart, ReadLine, consumer
<1>6. CASE HandLine \/ HandPart
  BY <1>0, <1>6 DEF HandLine, HandPart, Consume
<1>7. CASE ReadEnd \/ Proxy
  BY <1>0, <1>7 DEF ReadEnd, Proxy, consumer
<1>8. CASE Killer \/ WatchdogLeaves
  BY <1>0, <1>8 DEF Killer, WatchdogLeaves, consumer, piped
<1>9. CASE TakeReader \/ Snapshot
  BY <1>0, <1>9 DEF TakeReader, Snapshot, consumer, piped
<1>10. CASE FetchTail
  BY <1>0, <1>10 DEF FetchTail, consumer, piped
<1>11. CASE Replay
  BY <1>0, <1>11 DEF Replay, Consume, consumer, piped
<1>12. CASE PollLeaves \/ PollList \/ PollLogs
  BY <1>0, <1>12 DEF PollLeaves, PollList, PollLogs, consumer, piped
<1>13. CASE PollLast \/ PollNext \/ PollRound
  BY <1>0, <1>13 DEF PollLast, PollNext, PollRound, consumer, piped
<1>14. CASE PollHand
  BY <1>0, <1>14 DEF PollHand, Consume, piped
<1>15. CASE TaskHand
  BY <1>0, <1>15 DEF TaskHand, Consume, piped
<1>16. CASE TaskLeaves \/ TaskNext \/ TaskEnds
  BY <1>0, <1>16 DEF TaskLeaves, TaskNext, TaskEnds, consumer, piped
<1> QED
  BY <1>1, <1>2, <1>3, <1>4, <1>5, <1>6, <1>7, <1>8, <1>9, <1>10, <1>11,
     <1>12, <1>13, <1>14, <1>15, <1>16
  DEF FollowerStep, Following

\* Once close() has returned a follower made of threads calls the consumer no
\* more, a task at most once. (FollowHandle::close)
THEOREM ClosedIsSilent == Spec => []Silent
<1>1. Init => CloseInv
  <2> SUFFICES ASSUME Init PROVE CloseInv
    OBVIOUS
  <2>1. late = 0 /\ close = "open" /\ joiner = "none"
    BY DEF Init
  <2> QED
    BY <2>1 DEF CloseInv
<1>2. BaseInv /\ CloseInv /\ [Next]_vars => CloseInv'
  <2> SUFFICES ASSUME BaseInv, CloseInv, [Next]_vars PROVE CloseInv'
    OBVIOUS
  <2>1. CASE FollowerStep
    BY <2>1, CloseInvStep DEF BaseInv
  <2>2. CASE UNCHANGED follower
    BY <2>2 DEF CloseInv, follower, piped
  <2>3. CASE UNCHANGED vars
    BY <2>2, <2>3 DEF vars
  <2> QED
    BY <2>1, <2>2, <2>3, Steps, OthersAside
<1>3. CloseInv /\ TypeOK => Silent
  <2> SUFFICES ASSUME CloseInv, late \in Nat PROVE Silent
    BY DEF TypeOK
  <2> QED
    BY DEF CloseInv, Silent
<1> QED
  BY <1>1, <1>2, <1>3, TypesKept, PTL DEF Spec, BaseInv

-----------------------------------------------------------------------------
(* In order and whole                                                      *)

\* The lines that were handed over are among these: the watchdog's replay starts
\* where the reader it joined ended, what is in hand comes next.
Replays == kind = "piped" /\ joiner = "watchdog" /\ follow # "snapshot"
Past(n) ==
  IF kind = "piped" /\ ~Replays
    THEN n < count \/ (n = count /\ ~Held)
    ELSE n - base < cursor \/ (n - base = cursor /\ ~Hands)
ByProxy == kind = "piped" /\ joiner = "proxy"

PipedInv ==
  kind = "piped" =>
    /\ follow \in {"poll", "snapshot", "fetch", "replay", "end"}
    /\ joiner = "none" => follow \in {"poll", "snapshot", "end"}
    /\ follow \in {"poll", "snapshot"} => cursor = 0
    /\ joiner = "watchdog" => follow # "poll"
    /\ Replays => reader = "ended"
OrderInv ==
  /\ ~ByProxy => InOrder /\ \A i \in DOMAIN out, n \in Nat : out[i].line = n => Past(n)
  /\ kind = "task" =>
       /\ cursor = Len(out) + IF Hands THEN 1 ELSE 0
       /\ \A i \in DOMAIN out : out[i].line = i

\* Only a sandbox that runs writes at a line.  The poller's rounds hold such a
\* line back and its last fetch finds none; the others deliver one only after a
\* fault.
CutInv ==
  /\ torn => up
  /\ kind = "polled" /\ follow = "replay" /\ cut => cursor >= fetched
  /\ kind = "polled" /\ follow \in {"hand", "handlast", "tail"} => ~cut
  /\ kind = "polled" /\ follow \in {"last", "tail", "handlast"} => ~up
  /\ kind \in {"piped", "task"} /\ cut => faulted
  /\ kind = "piped" /\ follow \in {"snapshot", "fetch", "replay"} => ~up \/ faulted
WholeInv ==
  \A i \in DOMAIN out :
    out[i].cut => faulted \/ (kind = "piped" /\ reader = "ended" /\ out[i].line = count)

\* What Append does to the list of lines that were handed over.
LEMMA Appended ==
  ASSUME TypeOK, NEW n \in Lines, NEW c \in BOOLEAN, Consume(n, c)
  PROVE  /\ Len(out') = Len(out) + 1 /\ Len(out) \in Nat
         /\ DOMAIN out = 1..Len(out) /\ DOMAIN out' = 1..(Len(out) + 1)
         /\ \A i \in DOMAIN out : out'[i] = out[i]
         /\ out'[Len(out) + 1] = [line |-> n, cut |-> c]
<1>1. [line |-> n, cut |-> c] \in Item
  BY DEF Item, Lines
<1>2. out \in Seq(Item) /\ out' = Append(out, [line |-> n, cut |-> c])
  BY DEF TypeOK, Consume
<1>3. /\ Len(out') = Len(out) + 1
      /\ \A i \in 1..Len(out) : out'[i] = out[i]
      /\ out'[Len(out) + 1] = [line |-> n, cut |-> c]
  BY <1>1, <1>2, AppendProperties
<1>4. Len(out) \in Nat /\ DOMAIN out = 1..Len(out)
  BY <1>2, LenProperties
<1>5. out' \in Seq(Item)
  BY <1>1, <1>2, AppendProperties
<1>6. DOMAIN out' = 1..Len(out')
  BY <1>5, LenProperties
<1> QED
  BY <1>3, <1>4, <1>6

LEMMA LineNumbers ==
  ASSUME TypeOK
  PROVE  \A i \in DOMAIN out : out[i].line \in Nat
<1>1. \A i \in DOMAIN out : out[i] \in Item
  BY ElementOfSeq, LenProperties DEF TypeOK
<1> QED
  BY <1>1, StreamsAssumption DEF Item

LEMMA PipedStep ==
  ASSUME TypeOK, PipedInv, FollowerStep
  PROVE  PipedInv'
<1> SUFFICES ASSUME kind = "piped"
             PROVE  PipedInv'
  BY FollowerAside DEF PipedInv
<1> USE DEF PipedInv, Replays
<1>1. CASE CloseFollow \/ CloseReturns \/ FollowExits
  BY <1>1 DEF CloseFollow, CloseReturns, FollowExits, fetch, piped
<1>2. CASE WatchdogFires \/ WatchdogLeaves
  BY <1>2 DEF WatchdogFires, WatchdogLeaves, fetch, piped
<1>3. CASE Relay \/ RelayPart \/ ReadLine \/ HandLine
  BY <1>3 DEF Relay, RelayPart, ReadLine, HandLine, fetch
<1>4. CASE ReadEnd \/ HandPart
  BY <1>4 DEF ReadEnd, HandPart, fetch
<1>5. CASE Proxy \/ Killer \/ TakeReader
  BY <1>5 DEF Proxy, Killer, TakeReader, fetch
<1>6. CASE Snapshot \/ FetchTail
  BY <1>6 DEF Snapshot, FetchTail, piped
<1>7. CASE Replay
  BY <1>7 DEF Replay, piped
<1> QED
  BY <1>1, <1>2, <1>3, <1>4, <1>5, <1>6, <1>7
  DEF FollowerStep, Following, TaskFails, PollLeaves, PollList, PollLogs,
      PollLast, PollNext, PollHand, PollRound, TaskLeaves, TaskNext, TaskHand,
      TaskEnds

\* A handle that the proxy took stays with it.
LEMMA ProxyStays == TypeOK /\ FollowerStep /\ ByProxy => ByProxy'
BY DEF TypeOK, ByProxy, FollowerStep, Following, CloseFollow, CloseReturns,
       FollowExits, WatchdogFires, TaskFails, Relay, RelayPart, ReadLine,
       HandLine, ReadEnd, HandPart, Proxy, Killer, WatchdogLeaves, TakeReader,
       Snapshot, FetchTail, Replay, PollLeaves, PollList, PollLogs, PollLast,
       PollNext, PollHand, PollRound, TaskLeaves, TaskNext, TaskHand, TaskEnds,
       piped

\* A step that hands a line over hands over one past the others; none takes the
\* past back.
LEMMA PastStep ==
  ASSUME TypeOK, CountInv, PipedInv, FollowerStep, ~ByProxy, ~ByProxy'
  PROVE  \/ UNCHANGED out /\ \A m \in Nat : Past(m) => Past(m)'
         \/ \E n \in Lines : /\ Handed(n) /\ Past(n)'
                            /\ \A m \in Nat : Past(m) => m < n /\ Past(m)'
<1>0. /\ lines \in Nat /\ count \in Nat /\ cursor \in Nat /\ fetched \in Nat
      /\ base \in Nat /\ Before(lines) \in Nat /\ base <= Before(lines)
      /\ kind' = kind /\ kind \in {"piped", "polled", "task"}
      /\ cut \in BOOLEAN /\ cursor' \in Nat
  BY FollowerAside, FollowerTypesStep, Window, StreamsAssumption
  DEF TypeOK, CountInv, FollowerTypes
<1>a. ASSUME UNCHANGED <<out, count, cursor, base, joiner>>,
             Held' <=> Held, Hands' <=> Hands,
             follow' = follow \/ joiner # "watchdog" \/ kind # "piped"
      PROVE  UNCHANGED out /\ \A m \in Nat : Past(m) => Past(m)'
  <2>1. \A m \in Nat : Past(m)' <=> Past(m)
    BY <1>0, <1>a DEF Past, Replays
  <2> QED
    BY <1>a, <2>1
<1>1. CASE CloseFollow \/ CloseReturns \/ Killer
  BY <1>1, <1>a DEF CloseFollow, CloseReturns, Killer, consumer, fetch, piped,
                    Held, Hands
<1>2. CASE FollowExits \/ Relay \/ RelayPart
  BY <1>2, <1>a DEF FollowExits, Relay, RelayPart, consumer, fetch, Held, Hands
<1>3. CASE WatchdogFires \/ WatchdogLeaves
  <2>1. /\ UNCHANGED <<out, count, cursor, base, joiner, reader>>
        /\ kind = "piped" /\ follow = "poll" /\ ~Hands /\ ~Hands'
    BY <1>3 DEF WatchdogFires, WatchdogLeaves, consumer, fetch, piped, Hands
  <2>2. joiner # "watchdog"
    BY <2>1 DEF PipedInv
  <2> QED
    BY <1>a, <2>1, <2>2 DEF Held
<1>4. CASE Proxy
  BY <1>0, <1>4 DEF Proxy, ByProxy
<1>5. CASE TakeReader
  <2>1. /\ UNCHANGED <<out, count, cursor, base, follow, reader>>
        /\ follow = "snapshot" /\ kind = "piped"
    BY <1>5 DEF TakeReader, consumer, fetch
  <2>2. \A m \in Nat : Past(m)' <=> Past(m)
    BY <1>0, <2>1 DEF Past, Replays, Held
  <2> QED
    BY <2>1, <2>2
<1>6. CASE ReadLine \/ ReadEnd
  <2>1. /\ UNCHANGED <<out, cursor, base, joiner, follow>>
        /\ kind = "piped" /\ reader = "reads" /\ ~Held
        /\ \/ count' = count + 1 /\ Held'
           \/ count' = count /\ ~Held'
    BY <1>6 DEF ReadLine, ReadEnd, consumer, Held
  <2>2. ~Replays /\ ~Replays'
    BY <2>1 DEF PipedInv, Replays
  <2>3. \A m \in Nat : (Past(m) <=> m <= count) /\ (Past(m)' <=> m <= count)
    BY <1>0, <2>1, <2>2 DEF Past
  <2> QED
    BY <1>0, <2>1, <2>3
<1>7. CASE HandLine \/ HandPart
  <2>1. /\ UNCHANGED <<count, cursor, base, joiner, follow>>
        /\ kind = "piped" /\ Held /\ ~Held' /\ reader # "ended"
    BY <1>7 DEF HandLine, HandPart, fetch, Held
  <2>2. ~Replays /\ ~Replays'
    BY <2>1 DEF PipedInv, Replays
  <2>3. \A m \in Nat : (Past(m) <=> m <= count - 1) /\ (Past(m)' <=> m <= count)
    BY <1>0, <2>1, <2>2 DEF Past
  <2>4. Handed(count)
    BY <1>7, ReaderHands
  <2>5. count \in Lines
    BY <2>1, StreamsAssumption DEF TypeOK, CountInv, Lines
  <2> QED
    BY <1>0, <2>3, <2>4, <2>5
<1>8. CASE Snapshot
  <2>1. /\ UNCHANGED <<out, count, base, joiner, reader>>
        /\ cursor' = count /\ follow = "snapshot" /\ follow' = "fetch"
        /\ kind = "piped" /\ joiner # "none"
        /\ joiner = "watchdog" => reader = "ended"
    BY <1>8 DEF Snapshot, consumer, piped
  <2>2. joiner = "watchdog"
    BY <2>1 DEF ByProxy, TypeOK
  <2>3. \A m \in Nat : (Past(m) <=> m <= count) /\ (Past(m)' <=> m <= base + count)
    BY <1>0, <2>1, <2>2 DEF Past, Replays, Held, Hands
  <2> QED
    BY <1>0, <2>1, <2>3
<1>9. CASE FetchTail
  <2>1. /\ UNCHANGED <<out, count, cursor, joiner, reader>>
        /\ follow = "fetch" /\ follow' \in {"replay", "end"}
        /\ base' = Before(lines) \/ base' = base
        /\ kind = "piped"
    BY <1>9 DEF FetchTail, Fetched, consumer, piped
  <2>2. joiner = "watchdog"
    BY <2>1 DEF ByProxy, PipedInv, TypeOK
  <2>3. \A m \in Nat : (Past(m) <=> m <= base + cursor) /\ (Past(m)' <=> m <= base' + cursor)
    BY <1>0, <2>1, <2>2 DEF Past, Replays, Hands
  <2> QED
    BY <1>0, <2>1, <2>3
<1>10. CASE Replay
  <2>1. /\ UNCHANGED <<count, base, joiner, reader>>
        /\ follow = "replay" /\ follow' \in {"replay", "end"}
        /\ kind = "piped"
    BY <1>10 DEF Replay, piped
  <2>2. joiner = "watchdog"
    BY <2>1 DEF ByProxy, PipedInv, TypeOK
  <2>r. Replays /\ Replays' /\ ~Hands /\ ~Hands'
    BY <1>0, <2>1, <2>2 DEF Replays, Hands
  <2>p. \A m \in Nat : Past(m) <=> m <= base + cursor
    BY <1>0, <2>1, <2>r DEF Past
  <2>4. CASE cursor < fetched
    <3>1. cursor' = cursor + 1
      BY <1>10, <2>4 DEF Replay
    <3>2. \A m \in Nat : Past(m)' <=> m - base <= cursor + 1
      BY <1>0, <2>1, <2>r, <3>1 DEF Past
    <3>3. PICK n \in Lines : n = base + cursor + 1 /\ Handed(n)
      BY <1>10, <2>4, ReplayHands
    <3>4. Past(n)' /\ \A m \in Nat : Past(m) => m < n /\ Past(m)'
      BY <1>0, <2>p, <3>2, <3>3, StreamsAssumption DEF Lines
    <3> QED
      BY <3>3, <3>4
  <2>5. CASE ~(cursor < fetched)
    <3>1. cursor' = cursor /\ out' = out
      BY <1>10, <2>5 DEF Replay, consumer
    <3>2. \A m \in Nat : Past(m)' <=> m - base <= cursor
      BY <1>0, <2>1, <2>r, <3>1 DEF Past
    <3> QED
      BY <1>0, <2>p, <3>1, <3>2
  <2> QED
    BY <2>4, <2>5
<1>11. CASE PollLeaves \/ PollList \/ PollRound
  BY <1>11, <1>a, <1>0
  DEF PollLeaves, PollList, PollRound, consumer, fetch, piped, Held, Hands
<1>12. CASE PollLogs \/ PollLast
  <2>1. /\ UNCHANGED <<out, count, cursor, joiner, reader>>
        /\ kind = "polled" /\ ~Hands /\ ~Hands'
        /\ base' = Before(lines) \/ base' = base
    BY <1>12 DEF PollLogs, PollLast, Fetched, consumer, piped, Hands
  <2>2. \A m \in Nat : (Past(m) <=> m <= base + cursor) /\ (Past(m)' <=> m <= base' + cursor)
    BY <1>0, <2>1 DEF Past
  <2> QED
    BY <1>0, <2>1, <2>2
<1>13. CASE PollNext \/ TaskNext
  <2>1. /\ UNCHANGED <<out, base>> /\ cursor' = cursor + 1
        /\ kind # "piped" /\ ~Hands /\ Hands'
    BY <1>13 DEF PollNext, TaskNext, consumer, Hands
  <2>2. \A m \in Nat : (Past(m) <=> m <= base + cursor) /\ (Past(m)' <=> m <= base + cursor)
    BY <1>0, <2>1 DEF Past
  <2> QED
    BY <1>0, <2>1, <2>2
<1>14. CASE PollHand \/ TaskHand
  <2>1. /\ UNCHANGED <<base, cursor>> /\ kind # "piped" /\ Hands /\ ~Hands'
    BY <1>14 DEF PollHand, TaskHand, fetch, Hands
  <2>2. \A m \in Nat : (Past(m) <=> m <= base + cursor - 1) /\ (Past(m)' <=> m <= base + cursor)
    BY <1>0, <2>1 DEF Past
  <2>3. base + cursor \in Lines /\ Handed(base + cursor)
    BY <1>14, LineHands
  <2> QED
    BY <1>0, <2>2, <2>3
<1>15. CASE TaskFails
  <2>1. /\ UNCHANGED <<out, base>> /\ kind = "task" /\ ~Hands
        /\ \/ cursor' = cursor /\ ~Hands'
           \/ cursor' = lines /\ torn /\ cursor = Whole /\ Hands'
    BY <1>15 DEF TaskFails, consumer, Hands
  <2>2. cursor' = (IF Hands' THEN cursor + 1 ELSE cursor)
    BY <1>0, <2>1 DEF Whole
  <2>3. \A m \in Nat : (Past(m) <=> m <= base + cursor) /\ (Past(m)' <=> m <= base + cursor)
    BY <1>0, <2>1, <2>2 DEF Past
  <2> QED
    BY <1>0, <2>1, <2>3
<1>16. CASE TaskLeaves \/ TaskEnds
  BY <1>16, <1>a, <1>0
  DEF TaskLeaves, TaskEnds, consumer, fetch, piped, Held, Hands
<1> QED
  BY <1>1, <1>2, <1>3, <1>4, <1>5, <1>6, <1>7, <1>8, <1>9, <1>10,
     <1>11, <1>12, <1>13, <1>14, <1>15, <1>16
  DEF FollowerStep, Following

\* What comes after all that came before keeps the order.
LEMMA OrderStep ==
  ASSUME TypeOK, CountInv, PipedInv, OrderInv, FollowerStep
  PROVE  OrderInv'
<1>0. DOMAIN out = 1..Len(out) /\ Len(out) \in Nat
  BY LenProperties DEF TypeOK
<1>l. \A i \in DOMAIN out : out[i].line \in Nat
  BY LineNumbers
<1>1. ~ByProxy' =>
        InOrder' /\ \A i \in DOMAIN out', n \in Nat : out'[i].line = n => Past(n)'
  <2> SUFFICES ASSUME ~ByProxy'
               PROVE  InOrder' /\ \A i \in DOMAIN out', n \in Nat : out'[i].line = n => Past(n)'
    OBVIOUS
  <2>0. ~ByProxy /\ InOrder /\ \A i \in DOMAIN out, n \in Nat : out[i].line = n => Past(n)
    BY ProxyStays DEF OrderInv
  <2>1. CASE UNCHANGED out /\ \A m \in Nat : Past(m) => Past(m)'
    BY <2>0, <2>1 DEF InOrder
  <2>2. ASSUME NEW n \in Lines, Handed(n), Past(n)',
               \A m \in Nat : Past(m) => m < n /\ Past(m)'
        PROVE  InOrder' /\ \A i \in DOMAIN out', m \in Nat : out'[i].line = m => Past(m)'
    <3>1. PICK c \in BOOLEAN : Consume(n, c)
      BY <2>2 DEF Handed
    <3>2. /\ DOMAIN out' = 1..(Len(out) + 1)
          /\ \A i \in DOMAIN out : out'[i] = out[i]
          /\ out'[Len(out) + 1] = [line |-> n, cut |-> c]
      BY <3>1, Appended
    <3>3. out'[Len(out) + 1].line = n /\ n \in Nat
      BY <3>2, StreamsAssumption DEF Lines
    <3>4. \A i \in DOMAIN out : out'[i].line = out[i].line /\ out[i].line < n
      BY <1>l, <2>0, <2>2, <3>2
    <3>5. InOrder'
      <4> SUFFICES ASSUME NEW i \in DOMAIN out', NEW j \in DOMAIN out', i < j
                   PROVE  out'[i].line < out'[j].line
        BY DEF InOrder
      <4>1. i \in DOMAIN out
        BY <1>0, <3>2
      <4>2. CASE j \in DOMAIN out
        BY <2>0, <3>4, <4>1, <4>2 DEF InOrder
      <4>3. CASE j = Len(out) + 1
        BY <3>3, <3>4, <4>1, <4>3
      <4> QED
        BY <1>0, <3>2, <4>2, <4>3
    <3>6. ASSUME NEW i \in DOMAIN out', NEW m \in Nat, out'[i].line = m
          PROVE  Past(m)'
      <4>1. CASE i \in DOMAIN out
        BY <2>0, <2>2, <3>4, <3>6, <4>1
      <4>2. CASE i = Len(out) + 1
        <5>1. m = n
          BY <3>3, <3>6, <4>2
        <5> QED
          BY <2>2, <5>1
      <4> QED
        BY <1>0, <3>2, <4>1, <4>2
    <3> QED
      BY <3>5, <3>6
  <2> QED
    BY <2>0, <2>1, <2>2, PastStep
<1>2. ASSUME kind' = "task"
      PROVE  /\ cursor' = Len(out') + IF Hands' THEN 1 ELSE 0
             /\ \A i \in DOMAIN out' : out'[i].line = i
  <2>0. /\ kind = "task" /\ cursor = Len(out) + IF Hands THEN 1 ELSE 0
        /\ \A i \in DOMAIN out : out[i].line = i
        /\ cursor \in Nat /\ lines \in Nat
    BY <1>2, FollowerAside, StreamsAssumption DEF OrderInv, TypeOK
  <2>1. CASE CloseFollow \/ CloseReturns
    BY <1>0, <2>0, <2>1 DEF CloseFollow, CloseReturns, consumer, fetch, Hands
  <2>2. CASE TaskHand
    <3>1. /\ Hands /\ ~Hands' /\ UNCHANGED <<base, cursor>>
          /\ Consume(cursor, cut)
      BY <2>2 DEF TaskHand, fetch, Hands
    <3>2. cursor \in Lines /\ cut \in BOOLEAN /\ cursor = Len(out) + 1
      BY <1>0, <2>0, <3>1, StreamsAssumption DEF TypeOK, CountInv, Lines
    <3>3. /\ Len(out') = Len(out) + 1 /\ DOMAIN out' = 1..(Len(out) + 1)
          /\ \A i \in DOMAIN out : out'[i] = out[i]
          /\ out'[Len(out) + 1] = [line |-> cursor, cut |-> cut]
      BY <3>1, <3>2, Appended
    <3>4. out'[Len(out) + 1].line = Len(out) + 1
      BY <3>2, <3>3
    <3> QED
      BY <1>0, <2>0, <3>1, <3>2, <3>3, <3>4
  <2>3. CASE TaskNext
    <3>1. /\ UNCHANGED <<out, base>> /\ ~Hands /\ Hands' /\ cursor' = cursor + 1
      BY <2>3 DEF TaskNext, consumer, Hands
    <3> QED
      BY <1>0, <2>0, <3>1
  <2>4. CASE TaskFails
    <3>1. /\ UNCHANGED <<out, base>> /\ ~Hands
          /\ \/ cursor' = cursor /\ ~Hands'
             \/ cursor' = lines /\ torn /\ cursor = Whole /\ Hands'
      BY <2>4 DEF TaskFails, consumer, Hands
    <3>2. CASE ~Hands'
      BY <1>0, <2>0, <3>1, <3>2
    <3>3. CASE Hands'
      <4>1. cursor' = cursor + 1
        BY <2>0, <3>1, <3>3 DEF Whole
      <4> QED
        BY <1>0, <2>0, <3>1, <3>3, <4>1
    <3> QED
      BY <3>2, <3>3
  <2>5. CASE TaskLeaves \/ TaskEnds
    BY <1>0, <2>0, <2>5 DEF TaskLeaves, TaskEnds, consumer, fetch, Hands
  <2> QED
    BY <2>0, <2>1, <2>2, <2>3, <2>4, <2>5
    DEF FollowerStep, Following, FollowExits, WatchdogFires, Relay, RelayPart,
        ReadLine, HandLine, ReadEnd, HandPart, Proxy, Killer, WatchdogLeaves,
        TakeReader, Snapshot, FetchTail, Replay, PollLeaves, PollList, PollLogs,
        PollLast, PollNext, PollHand, PollRound
<1> QED
  BY <1>1, <1>2 DEF OrderInv, InOrder

\* The part about the follower, and the part about the sandbox.
LEMMA CutStep ==
  ASSUME TypeOK, CutInv, FollowerStep
  PROVE  CutInv'
<1>0. /\ up \in BOOLEAN /\ torn \in BOOLEAN /\ cut \in BOOLEAN
      /\ faulted \in BOOLEAN
      /\ cursor \in Nat /\ fetched \in Nat /\ lines \in Nat
      /\ kind \in {"piped", "polled", "task"}
      /\ UNCHANGED <<up, torn, kind>>
  BY FollowerAside, StreamsAssumption DEF TypeOK, sandbox
<1> USE DEF CutInv
<1>1. CASE CloseFollow \/ CloseReturns
  BY <1>0, <1>1 DEF CloseFollow, CloseReturns, fetch
<1>2. CASE FollowExits
  BY <1>0, <1>2 DEF FollowExits, fetch
<1>3. CASE WatchdogFires
  <2>1. CASE up
    BY <1>0, <1>3, <2>1 DEF WatchdogFires, fetch
  <2>2. CASE ~up
    BY <1>0, <1>3, <2>2 DEF WatchdogFires, fetch
  <2> QED
    BY <2>1, <2>2
<1>4. CASE TaskFails
  BY <1>0, <1>4 DEF TaskFails
<1>5. CASE Relay \/ RelayPart \/ ReadLine \/ HandLine
  <2>1. UNCHANGED <<follow, cursor, fetched, cut, faulted>>
    BY <1>5 DEF Relay, RelayPart, ReadLine, HandLine, fetch
  <2> QED
    BY <1>0, <2>1
<1>16. CASE ReadEnd \/ HandPart \/ Proxy \/ Killer
  <2>1. UNCHANGED <<follow, cursor, fetched, cut, faulted>>
    BY <1>16 DEF ReadEnd, HandPart, Proxy, Killer, fetch
  <2> QED
    BY <1>0, <2>1
<1>6. CASE WatchdogLeaves \/ TakeReader \/ Snapshot
  BY <1>0, <1>6 DEF WatchdogLeaves, TakeReader, Snapshot, fetch
<1>7. CASE FetchTail
  BY <1>0, <1>7 DEF FetchTail, Fetched
<1>8. CASE Replay
  BY <1>0, <1>8 DEF Replay
<1>9. CASE PollLeaves \/ PollList
  BY <1>0, <1>9 DEF PollLeaves, PollList, fetch
<1>10. CASE PollLogs
  <2>1. kind = "polled" /\ follow' = "replay" /\ cursor' = cursor
    BY <1>10 DEF PollLogs
  <2>2. Shown(lines) \in Nat
    BY <1>0, Window
  <2>3. CASE Shown(lines) > cursor + 1
    <3>1. fetched' = Shown(lines) - 1 /\ (cut' => fetched' = Shown(lines))
      BY <1>0, <1>10, <2>3 DEF PollLogs, Fetched
    <3> QED
      BY <1>0, <2>1, <2>2, <3>1
  <2>4. CASE ~(Shown(lines) > cursor + 1)
    <3>1. fetched' = cursor
      BY <1>0, <1>10, <2>4 DEF PollLogs, Fetched
    <3> QED
      BY <1>0, <2>1, <3>1
  <2> QED
    BY <2>3, <2>4
<1>11. CASE PollLast
  BY <1>0, <1>11 DEF PollLast, Fetched
<1>12. CASE PollNext
  BY <1>0, <1>12 DEF PollNext
<1>13. CASE PollHand
  BY <1>0, <1>13 DEF PollHand, fetch
<1>14. CASE PollRound
  BY <1>0, <1>14 DEF PollRound, fetch
<1>15. CASE TaskLeaves \/ TaskNext \/ TaskHand \/ TaskEnds
  BY <1>0, <1>15 DEF TaskLeaves, TaskNext, TaskHand, TaskEnds, fetch
<1> QED
  BY <1>1, <1>2, <1>3, <1>4, <1>5, <1>6, <1>7, <1>8, <1>9, <1>10, <1>11,
     <1>12, <1>13, <1>14, <1>15, <1>16
  DEF FollowerStep, Following

LEMMA TornIsUp ==
  ASSUME TypeOK, CutInv, OtherStep
  PROVE  torn' => up'
<1>1. CASE Write
  BY <1>1 DEF Write
<1>2. CASE Exit \/ MsbStop \/ DropGuard
  BY <1>2 DEF Exit, MsbStop, DropGuard, Ends, CutInv
<1>3. CASE UNCHANGED sandbox
  BY <1>3 DEF sandbox, CutInv
<1> QED
  BY <1>1, <1>2, <1>3
  DEF OtherStep, TunnelStep, Install, LinkFails, Probe, Hosts,
      Forward, Tunnels, Accept, Working, Leave, Spawn, Publish, Unheard,
      Connect, PublishTarget, PumpEnds, KillCurrent, StopBegins, Stopping,
      SetClosed, KillListener, Sever, Join

\* What may be handed over in part is what a failing stream left.
LEMMA CutIsFaulted == TypeOK /\ CutInv /\ MayCut => faulted
BY StreamsAssumption DEF TypeOK, CutInv, MayCut, Hands

LEMMA FaultStays == TypeOK /\ FollowerStep /\ faulted => faulted'
BY DEF TypeOK, FollowerStep, Following, CloseFollow, CloseReturns, FollowExits,
       WatchdogFires, TaskFails, Relay, RelayPart, ReadLine, HandLine, ReadEnd,
       HandPart, Proxy, Killer, WatchdogLeaves, TakeReader, Snapshot, FetchTail, Replay,
       PollLeaves, PollList, PollLogs, PollLast, PollNext, PollHand, PollRound,
       TaskLeaves, TaskNext, TaskHand, TaskEnds

\* A reader that has ended counts no more.
LEMMA EndedStays ==
  TypeOK /\ FollowerStep /\ reader = "ended" => reader' = "ended" /\ count' = count
BY DEF TypeOK, FollowerStep, Following, CloseFollow, CloseReturns, FollowExits,
       WatchdogFires, TaskFails, Relay, RelayPart, ReadLine, HandLine, ReadEnd,
       HandPart, Proxy, Killer, WatchdogLeaves, TakeReader, Snapshot, FetchTail,
       Replay, PollLeaves, PollList, PollLogs, PollLast, PollNext, PollHand,
       PollRound, TaskLeaves, TaskNext, TaskHand, TaskEnds, fetch, piped

LEMMA WholeStep ==
  ASSUME TypeOK, CountInv, CutInv, WholeInv, FollowerStep
  PROVE  WholeInv'
<1>0. kind' = kind
  BY FollowerAside
<1>1. CASE UNCHANGED consumer
  BY <1>0, <1>1, FaultStays, EndedStays DEF WholeInv, consumer
<1>2. ASSUME NEW n \in Lines, Handed(n) PROVE WholeInv'
  <2>1. PICK c \in BOOLEAN : Consume(n, c) /\ (c => MayCut \/ Flushed(n))
    BY <1>2 DEF Handed
  <2>2. /\ Len(out) \in Nat
        /\ DOMAIN out = 1..Len(out) /\ DOMAIN out' = 1..(Len(out) + 1)
        /\ \A i \in DOMAIN out : out'[i] = out[i]
        /\ out'[Len(out) + 1] = [line |-> n, cut |-> c]
    BY <2>1, Appended
  <2>3. c => faulted' \/ (kind' = "piped" /\ reader' = "ended" /\ n = count')
    BY <1>0, <2>1, CutIsFaulted, FaultStays DEF Flushed
  <2>4. ASSUME NEW i \in DOMAIN out', out'[i].cut
        PROVE  faulted' \/ (kind' = "piped" /\ reader' = "ended" /\ out'[i].line = count')
    <3>1. CASE i \in DOMAIN out
      BY <1>0, <2>2, <2>4, <3>1, FaultStays, EndedStays DEF WholeInv
    <3>2. CASE i = Len(out) + 1
      BY <2>2, <2>3, <2>4, <3>2
    <3> QED
      BY <2>2, <2>4, <3>1, <3>2
  <2> QED
    BY <2>4 DEF WholeInv
<1> QED
  BY <1>1, <1>2, WhatIsHanded

\* Everything that is said about the followers' lines but how often the piped
\* one hands them over.
LineInv == BaseInv /\ PipedInv /\ OrderInv /\ CutInv /\ WholeInv

LEMMA LineStep == LineInv /\ [Next]_vars => LineInv'
<1> SUFFICES ASSUME LineInv, [Next]_vars PROVE LineInv'
  OBVIOUS
<1> USE DEF LineInv
<1>1. BaseInv'
  BY BaseStep
<1>2. CASE FollowerStep
  BY <1>1, <1>2, PipedStep, OrderStep, CutStep, WholeStep DEF BaseInv
<1>3. CASE OtherStep
  <2>1. UNCHANGED follower
    BY <1>3, OthersAside
  <2>2. PipedInv' /\ OrderInv' /\ WholeInv'
    BY <2>1 DEF follower, fetch, piped, PipedInv, OrderInv, WholeInv, InOrder,
                Past, Replays, ByProxy, Held, Hands
  <2>3. (torn' => up') /\ (up' => up)
    BY <1>3, TornIsUp, SandboxStep DEF BaseInv
  <2>4. CutInv'
    BY <2>1, <2>3 DEF follower, fetch, CutInv
  <2> QED
    BY <1>1, <2>2, <2>4
<1>4. CASE UNCHANGED vars
  BY <1>1, <1>4 DEF vars, follower, fetch, piped, PipedInv, OrderInv, CutInv,
                    WholeInv, InOrder, Past, Replays, ByProxy, Held, Hands
<1> QED
  BY <1>2, <1>3, <1>4, Steps

LEMMA LinesKept == Spec => []LineInv
<1>1. Init => PipedInv /\ OrderInv /\ CutInv /\ WholeInv
  <2> SUFFICES ASSUME Init PROVE PipedInv /\ OrderInv /\ CutInv /\ WholeInv
    OBVIOUS
  <2>1. DOMAIN out = {} /\ Len(out) = 0
    BY DEF Init
  <2>2. PipedInv /\ CutInv
    BY DEF Init, PipedInv, CutInv, Replays
  <2> QED
    BY <2>1, <2>2 DEF Init, OrderInv, WholeInv, InOrder, Hands
<1>2. Init => BaseInv
  BY InitBase
<1> QED
  BY <1>1, <1>2, LineStep, PTL DEF Spec, LineInv

-----------------------------------------------------------------------------
(* How often                                                               *)

Got(l) == {i \in DOMAIN out : out[i].line = l}

LEMMA GotFinite ==
  ASSUME TypeOK, NEW l
  PROVE  IsFiniteSet(Got(l)) /\ Times(l) = Cardinality(Got(l)) /\ Times(l) \in Nat
<1>1. out \in Seq(Item)
  BY DEF TypeOK
<1>2. DOMAIN out = 1..Len(out) /\ Len(out) \in Nat
  BY <1>1, LenProperties
<1>3. IsFiniteSet(1..Len(out))
  BY <1>2, FS_Interval
<1>4. IsFiniteSet(Got(l))
  BY <1>2, <1>3, FS_Subset DEF Got
<1>5. Times(l) = Cardinality(Got(l))
  BY DEF Times, Got
<1> QED
  BY <1>4, <1>5, FS_CardinalityType

\* A line that is handed over was got once more, the others as often as before.
LEMMA TimesStep ==
  ASSUME TypeOK, NEW n \in Lines, Handed(n), NEW l
  PROVE  Times(l)' = Times(l) + (IF l = n THEN 1 ELSE 0)
<1>1. PICK c \in BOOLEAN : Consume(n, c)
  BY DEF Handed
<1>2. /\ Len(out) \in Nat
      /\ DOMAIN out = 1..Len(out) /\ DOMAIN out' = 1..(Len(out) + 1)
      /\ \A i \in DOMAIN out : out'[i] = out[i]
      /\ out'[Len(out) + 1] = [line |-> n, cut |-> c]
  BY <1>1, Appended
<1>3. Times(l)' = Cardinality(Got(l)')
  BY DEF Times, Got
<1>4. CASE l = n
  <2>1. Got(l)' = Got(l) \cup {Len(out) + 1}
    BY <1>2, <1>4 DEF Got
  <2>2. Len(out) + 1 \notin Got(l)
    BY <1>2 DEF Got
  <2>3. Cardinality(Got(l) \cup {Len(out) + 1}) = Cardinality(Got(l)) + 1
    BY <2>2, GotFinite, FS_AddElement
  <2> QED
    BY <1>3, <1>4, <2>1, <2>3, GotFinite
<1>5. CASE l # n
  <2>1. Got(l)' = Got(l)
    BY <1>2, <1>5 DEF Got
  <2> QED
    BY <1>3, <1>5, <2>1, GotFinite
<1> QED
  BY <1>4, <1>5

\* What is in order holds no line twice.
LEMMA OrderedOnce ==
  ASSUME TypeOK, InOrder, NEW l
  PROVE  Times(l) <= 1
<1>1. DOMAIN out = 1..Len(out) /\ Len(out) \in Nat
  BY LenProperties DEF TypeOK
<1>2. \A i \in DOMAIN out : out[i].line \in Nat
  BY LineNumbers
<1>3. \A i, j \in Got(l) : i = j
  BY <1>1, <1>2 DEF Got, InOrder
<1>4. CASE Got(l) = {}
  <2>1. Times(l) = 0
    BY <1>4, GotFinite, FS_EmptySet
  <2> QED
    BY <2>1
<1>5. CASE Got(l) # {}
  <2>1. PICK i \in Got(l) : TRUE
    BY <1>5
  <2>2. Got(l) = {i}
    BY <1>3, <2>1
  <2>3. Cardinality({i}) = 1
    BY FS_Singleton
  <2> QED
    BY <2>2, <2>3, GotFinite
<1> QED
  BY <1>4, <1>5

\* The reader hands over the lines it counted, the one in hand excepted, and
\* the replay those between the lines it skips and the cursor.
Live(l) == IF l < count \/ (l = count /\ ~Held) THEN 1 ELSE 0
Again(l) == IF l - base <= cursor THEN 1 ELSE 0

TimesInv == kind = "piped" => \A l \in Lines : Times(l) <= Live(l) + Again(l)

LEMMA TimesInvStep ==
  ASSUME TypeOK, CountInv, PipedInv, TimesInv, FollowerStep
  PROVE  TimesInv'
<1> SUFFICES ASSUME kind = "piped", NEW l \in Lines
             PROVE  (Times(l) <= Live(l) + Again(l))'
  BY FollowerAside DEF TimesInv
<1>0. /\ count \in Nat /\ cursor \in Nat /\ base \in Nat /\ l \in Nat
      /\ fetched \in Nat /\ lines \in Nat
      /\ Times(l) \in Nat /\ Live(l) \in 0..1 /\ Again(l) \in 0..1
      /\ Times(l) <= Live(l) + Again(l)
  BY GotFinite, StreamsAssumption DEF TypeOK, Lines, TimesInv, Live, Again
<1>w. base <= Before(lines) /\ Before(lines) \in Nat
  BY <1>0, Window DEF CountInv
<1>1. ASSUME UNCHANGED out, Live(l)' = Live(l),
             Again(l)' \in {Again(l), 1}
      PROVE  (Times(l) <= Live(l) + Again(l))'
  <2>1. Times(l)' = Times(l)
    BY <1>1 DEF Times
  <2> QED
    BY <1>0, <1>1, <2>1
<1>2. CASE CloseFollow \/ CloseReturns \/ FollowExits \/ Relay \/ RelayPart \/ Killer
  <2>1. UNCHANGED <<out, count, cursor, base, reader>>
    BY <1>2 DEF CloseFollow, CloseReturns, FollowExits, Relay, RelayPart, Killer,
                consumer, fetch, piped
  <2> QED
    BY <1>1, <2>1 DEF Live, Again, Held
<1>3. CASE WatchdogFires \/ WatchdogLeaves \/ Proxy \/ TakeReader
  <2>1. UNCHANGED <<out, count, cursor, base, reader>>
    BY <1>3 DEF WatchdogFires, WatchdogLeaves, Proxy, TakeReader, consumer,
                fetch, piped
  <2> QED
    BY <1>1, <2>1 DEF Live, Again, Held
<1>4. CASE ReadLine \/ ReadEnd
  <2>1. /\ UNCHANGED <<out, cursor, base>> /\ ~Held
        /\ \/ count' = count + 1 /\ Held'
           \/ count' = count /\ ~Held'
    BY <1>4 DEF ReadLine, ReadEnd, consumer, Held
  <2>2. Live(l)' = Live(l) /\ Again(l)' = Again(l)
    BY <1>0, <2>1 DEF Live, Again
  <2> QED
    BY <1>1, <2>1, <2>2
<1>5. CASE HandLine \/ HandPart
  <2>1. UNCHANGED <<count, cursor, base>> /\ Held /\ ~Held'
    BY <1>5 DEF HandLine, HandPart, fetch, Held
  <2>2. count \in Lines
    BY <2>1, StreamsAssumption DEF TypeOK, CountInv, Lines
  <2>3. Times(l)' = Times(l) + IF l = count THEN 1 ELSE 0
    BY <1>5, <2>2, ReaderHands, TimesStep
  <2>4. Live(l)' = Live(l) + (IF l = count THEN 1 ELSE 0) /\ Again(l)' = Again(l)
    BY <1>0, <2>1 DEF Live, Again
  <2> QED
    BY <1>0, <2>3, <2>4
<1>6. CASE Snapshot
  <2>1. /\ UNCHANGED <<out, count, base, reader>> /\ cursor = 0 /\ cursor' = count
    BY <1>6 DEF Snapshot, PipedInv, consumer, piped
  <2>2. Again(l)' \in {Again(l), 1}
    BY <1>0, <2>1 DEF Again
  <2> QED
    BY <1>1, <2>1, <2>2 DEF Live, Held
<1>9. CASE FetchTail
  <2>1. /\ UNCHANGED <<out, count, cursor, reader>>
        /\ base' = Before(lines) \/ base' = base
    BY <1>9 DEF FetchTail, Fetched, consumer, piped
  <2>2. Again(l)' \in {Again(l), 1}
    BY <1>0, <1>w, <2>1 DEF Again
  <2> QED
    BY <1>1, <2>1, <2>2 DEF Live, Held
<1>7. CASE Replay /\ cursor < fetched
  <2>1. /\ UNCHANGED <<count, base, reader>> /\ cursor' = cursor + 1
    BY <1>7 DEF Replay, piped
  <2>2. base + cursor + 1 \in Lines /\ Handed(base + cursor + 1)
    BY <1>7, ReplayHands
  <2>3. Times(l)' = Times(l) + IF l = base + cursor + 1 THEN 1 ELSE 0
    BY <2>2, TimesStep
  <2>4. Again(l)' = Again(l) + (IF l = base + cursor + 1 THEN 1 ELSE 0)
    BY <1>0, <2>1 DEF Again
  <2>5. Live(l)' = Live(l)
    BY <2>1 DEF Live, Held
  <2> QED
    BY <1>0, <2>3, <2>4, <2>5
<1>8. CASE Replay /\ ~(cursor < fetched)
  <2>1. UNCHANGED <<out, count, cursor, base, reader>>
    BY <1>8 DEF Replay, consumer, piped
  <2> QED
    BY <1>1, <2>1 DEF Live, Again, Held
<1> QED
  BY <1>2, <1>3, <1>4, <1>5, <1>6, <1>7, <1>8, <1>9
  DEF FollowerStep, Following, TaskFails, PollLeaves, PollList, PollLogs,
      PollLast, PollNext, PollHand, PollRound, TaskLeaves, TaskNext, TaskHand,
      TaskEnds

LEMMA TimesKept == Spec => []TimesInv
<1>1. Init => TimesInv
  <2> SUFFICES ASSUME Init PROVE TimesInv
    OBVIOUS
  <2>1. \A l \in Lines : Times(l) = 0
    BY FS_EmptySet DEF Init, Times
  <2>2. \A l \in Lines : Live(l) \in Nat /\ Again(l) \in Nat
    BY DEF Live, Again
  <2> QED
    BY <2>1, <2>2 DEF Init, TimesInv
<1>2. LineInv /\ TimesInv /\ [Next]_vars => TimesInv'
  <2> SUFFICES ASSUME LineInv, TimesInv, [Next]_vars PROVE TimesInv'
    OBVIOUS
  <2>1. CASE FollowerStep
    BY <2>1, TimesInvStep DEF LineInv, BaseInv
  <2>2. CASE UNCHANGED follower
    BY <2>2 DEF follower, fetch, piped, TimesInv, Times, Live, Again, Held
  <2>3. CASE UNCHANGED vars
    BY <2>2, <2>3 DEF vars
  <2> QED
    BY <2>1, <2>2, <2>3, Steps, OthersAside
<1> QED
  BY <1>1, <1>2, LinesKept, PTL DEF Spec

\* The lines reach the consumer in the order of the log and none of them twice,
\* of a poller, of a task, and of a piped follower whose watchdog joins the
\* reader, however far the window of the last LogTail lines has moved on; where
\* the proxy joins it none comes a third time.  A part of a line is handed over
\* after a failure, or as the last of what was in the pipe.
\* (drain_lines, flush_tail_once, spawn_follow_polling, follow_logs)
THEOREM LinesOnceInOrder == Spec => []OnceInOrder
<1>1. LineInv /\ TimesInv => OnceInOrder
  <2> SUFFICES ASSUME LineInv, TimesInv PROVE OnceInOrder
    OBVIOUS
  <2>1. ASSUME NEW l \in Lines PROVE Times(l) <= 2
    <3>1. Times(l) \in Nat
      BY GotFinite DEF LineInv, BaseInv
    <3>2. CASE kind = "piped"
      <4>1. Times(l) <= Live(l) + Again(l)
        BY <3>2 DEF TimesInv
      <4>2. Live(l) \in 0..1 /\ Again(l) \in 0..1
        BY DEF Live, Again
      <4> QED
        BY <3>1, <4>1, <4>2
    <3>3. CASE kind # "piped"
      <4>1. Times(l) <= 1
        BY <3>3, OrderedOnce DEF LineInv, BaseInv, OrderInv, ByProxy
      <4> QED
        BY <3>1, <4>1
    <3> QED
      BY <3>2, <3>3
  <2>2. ~(kind = "piped" /\ joiner = "proxy") => InOrder
    BY DEF LineInv, OrderInv, ByProxy
  <2>3. kind = "task" => \A i \in DOMAIN out : out[i].line = i
    BY DEF LineInv, OrderInv
  <2> QED
    BY <2>1, <2>2, <2>3 DEF OnceInOrder, LineInv, WholeInv
<1> QED
  BY <1>1, LinesKept, TimesKept, PTL

\* What the module doc of watchdog.rs says of the join holds whenever the
\* reader's handle is still there for the watchdog to take: no line is
\* delivered twice, live and replayed. (quiesce_reader_then_snapshot)
THEOREM JoinedReader ==
  Spec => [](kind = "piped" /\ joiner # "proxy" => \A l \in Lines : Times(l) <= 1)
<1>1. LineInv => (kind = "piped" /\ joiner # "proxy" => \A l \in Lines : Times(l) <= 1)
  BY OrderedOnce DEF LineInv, BaseInv, OrderInv, ByProxy
<1> QED
  BY <1>1, LinesKept, PTL

=============================================================================

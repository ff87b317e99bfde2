------------------------------ MODULE Streams ------------------------------
(***************************************************************************)
(* What hangs on one microsandbox or Docker sandbox while it runs: its     *)
(* network links (the tunnel worker of an msb TCP link), one follower of   *)
(* its log, and the stop() that takes them down.                           *)
(*                                                                         *)
(* A line of the log is its number.  The last line may be `torn': written  *)
(* only in part.  The three followers are those of spawn_follow (piped),   *)
(* spawn_follow_polling (polled) and docker's follow_logs (task); a run of *)
(* the system has one of them.  A fetch of msb's shows the last LogTail    *)
(* lines only, and its reader skips as many of these as it has delivered   *)
(* in all.  `out' is what the consumer was called with.                    *)
(***************************************************************************)
EXTENDS Naturals, Sequences, FiniteSets

CONSTANTS
  Kinds,      \* the followers to consider, of "piped", "polled", "task"
  MaxLines,   \* bound: lines the workload writes
  LogTail,    \* --tail of a fetch with msb logs: 1000 lines
  MaxServes,  \* bound: connections a tunnel serves
  Links       \* per kind of follower the batches of links start() may install: sequences of records

ASSUME StreamsAssumption ==
  /\ Kinds \subseteq {"piped", "polled", "task"}
  /\ MaxLines \in Nat /\ MaxServes \in Nat
  /\ LogTail \in Nat \ {0}

VARIABLES
  up,        \* the sandbox runs
  lines,     \* lines in its log
  torn,      \* the last of them is still being written
  kind,      \* the follower's kind
  out,       \* what the consumer got: records of a line and whether it was cut
  late,      \* calls of the consumer after close() had returned
  close,     \* "open", "asked" (close_requested is set), "closed" (close() returned)
  faulted,   \* an msb ls, an msb logs, the follow child or the stream failed
  follow,    \* the follower's program counter
  count,     \* FollowState.delivered: lines the reader counted
  cursor,    \* lines of its fetch the poller or the replay is past, or of the log the task
  fetched,   \* the last line wanted of the fetch
  base,      \* lines of the log that came before those of the fetch
  cut,       \* the last line wanted is only part of a line
  child,     \* msb logs -f: "runs", "killed", "exited"
  pipe,      \* lines the child has written to its pipe
  part,      \* and a part of the next one
  reader,    \* the reader thread: "reads", "holds" or "flushes" (a line, or the part of one at the
             \* end, is counted and not yet handed over), "ended"
  joiner,    \* who took the reader's JoinHandle: "none", "proxy", "watchdog"
  link,      \* install_network_links
  batch,     \* the links it installs
  worker,    \* the tunnel worker's program counter
  nc,        \* the in-guest listener: "none", "runs", "dead"
  current,   \* the worker has published the listener
  target,    \* the worker has published the target's socket
  severed,   \* that socket was shut down
  serves,    \* connections so far
  stop       \* the program counter of stop()

sandbox  == <<up, lines, torn>>
consumer == <<out, late>>
piped    == <<child, pipe, part, reader, joiner>>
fetch    == <<count, cursor, fetched, base, cut>>
follower == <<kind, out, late, close, faulted, follow, fetch, piped>>
tunnel   == <<worker, nc, current, target, severed, serves>>
linking  == <<link, batch>>
vars     == <<up, lines, torn, follower, linking, tunnel, stop>>

Item == [line : 1..MaxLines, cut : BOOLEAN]

TypeOK ==
  /\ up \in BOOLEAN /\ lines \in 0..MaxLines /\ torn \in BOOLEAN
  /\ kind \in Kinds /\ out \in Seq(Item) /\ late \in Nat
  /\ close \in {"open", "asked", "closed"} /\ faulted \in BOOLEAN
  /\ follow \in {"poll", "snapshot", "fetch", "replay", "logs", "hand", "tail", "last", "handlast", "end"}
  /\ count \in 0..MaxLines /\ cursor \in 0..MaxLines /\ fetched \in 0..MaxLines
  /\ base \in 0..MaxLines /\ cut \in BOOLEAN
  /\ child \in {"runs", "killed", "exited"} /\ pipe \in 0..MaxLines /\ part \in BOOLEAN
  /\ reader \in {"reads", "holds", "flushes", "ended"} /\ joiner \in {"none", "proxy", "watchdog"}
  /\ link \in {"asked", "probe", "hosts", "udp", "tunnels", "linked", "failed"}
  /\ batch \in Links[kind] \cup {<<>>}
  /\ worker \in {"none", "loop", "spawned", "listens", "connects", "publishes", "pumps", "kills", "gone"}
  /\ nc \in {"none", "runs", "dead"}
  /\ current \in BOOLEAN /\ target \in BOOLEAN /\ severed \in BOOLEAN /\ serves \in 0..MaxServes
  /\ stop \in {"no", "closes", "kills", "severs", "joins", "stops", "returned", "dropped"}

Init ==
  /\ up = TRUE /\ lines = 0 /\ torn = FALSE
  /\ kind \in Kinds /\ out = <<>> /\ late = 0 /\ close = "open" /\ faulted = FALSE
  /\ follow = "poll" /\ count = 0 /\ cursor = 0 /\ fetched = 0 /\ base = 0 /\ cut = FALSE
  /\ child = "runs" /\ pipe = 0 /\ part = FALSE /\ reader = "reads" /\ joiner = "none"
  /\ link = "asked" /\ batch = <<>>
  /\ worker = "none" /\ nc = "none" /\ current = FALSE /\ target = FALSE /\ severed = FALSE /\ serves = 0
  /\ stop = "no"

-----------------------------------------------------------------------------
(* The workload and its sandbox.                                           *)

\* The workload writes a whole line, or part of one, or the rest of it.
Write ==
  /\ up
  /\ \/ ~torn /\ lines < MaxLines /\ lines' = lines + 1 /\ torn' \in BOOLEAN
     \/ torn /\ torn' = FALSE /\ UNCHANGED lines
  /\ UNCHANGED <<up, follower, linking, tunnel, stop>>

\* A sandbox that ends: its log stays, an unterminated last line is a line now, and the msb exec of
\* its listener ends with it.
Ends ==
  /\ up' = FALSE /\ torn' = FALSE
  /\ nc' = IF nc = "runs" THEN "dead" ELSE nc

\* The workload exits, or crashes.
Exit ==
  /\ up /\ Ends
  /\ UNCHANGED <<lines, follower, linking, worker, current, target, severed, serves, stop>>

-----------------------------------------------------------------------------
(* The consumer's callback, and the owner's FollowHandle.                  *)

Consume(line, isCut) ==
  /\ out' = Append(out, [line |-> line, cut |-> isCut])
  /\ late' = IF close = "closed" THEN late + 1 ELSE late

CloseFollow ==
  /\ close = "open" /\ close' = "asked"
  /\ UNCHANGED <<sandbox, kind, consumer, faulted, follow, fetch, piped, linking, tunnel, stop>>

\* Mutant: close() sets the flag and joins nobody.
JoinedAtOnce == TRUE

\* join_best_effort: a thread is joined, a task only aborted.  The threads of the piped follower are
\* the watchdog, the killer and the reader's proxy, which waits for the reader if it has its handle.
Joined ==
  CASE kind = "task"   -> TRUE
    [] kind = "polled" -> follow = "end"
    [] kind = "piped"  -> /\ follow = "end" /\ child # "runs"
                          /\ \/ joiner = "watchdog"
                             \/ joiner = "proxy" /\ reader = "ended"

CloseReturns ==
  /\ close = "asked" /\ Joined
  /\ close' = "closed"
  /\ UNCHANGED <<sandbox, kind, consumer, faulted, follow, fetch, piped, linking, tunnel, stop>>

-----------------------------------------------------------------------------
(* spawn_follow: a reader on the pipe of msb logs -f, a watchdog, a killer *)
(* and the proxy that joins the reader for the handle.                     *)

Whole == IF torn THEN lines - 1 ELSE lines

\* msb logs -f relays the lines while its sandbox runs, and does not end with it.
Relay ==
  /\ kind = "piped" /\ child = "runs" /\ up /\ pipe < Whole
  /\ pipe' = pipe + 1 /\ part' = FALSE
  /\ UNCHANGED <<sandbox, kind, consumer, close, faulted, follow, fetch, child, reader, joiner, linking, tunnel, stop>>

\* What it writes may end within a line: one still being written, or one longer than a write.
RelayPart ==
  /\ kind = "piped" /\ child = "runs" /\ up /\ ~part /\ pipe < lines
  /\ part' = TRUE
  /\ UNCHANGED <<sandbox, kind, consumer, close, faulted, follow, fetch, child, pipe, reader, joiner, linking, tunnel, stop>>

\* It ends only when it crashes.
FollowExits ==
  /\ kind = "piped" /\ child = "runs" /\ ~faulted
  /\ child' = "exited" /\ faulted' = TRUE
  /\ UNCHANGED <<sandbox, kind, consumer, close, follow, fetch, pipe, part, reader, joiner, linking, tunnel, stop>>

\* drain_lines: count the line under the lock, then call the consumer without it.
ReadLine ==
  /\ kind = "piped" /\ reader = "reads" /\ count < pipe
  /\ count' = count + 1 /\ reader' = "holds"
  /\ UNCHANGED <<sandbox, kind, consumer, close, faulted, follow, cursor, fetched, base, cut, child, pipe, part, joiner, linking, tunnel, stop>>

HandLine ==
  /\ kind = "piped" /\ reader = "holds"
  /\ Consume(count, FALSE) /\ reader' = "reads"
  /\ UNCHANGED <<sandbox, kind, close, faulted, follow, fetch, child, pipe, part, joiner, linking, tunnel, stop>>

\* The pipe ends once its writer is dead and everything in it was read.  Part of a line counts as one
\* more line.
ReadEnd ==
  /\ kind = "piped" /\ reader = "reads" /\ child # "runs" /\ count = pipe
  /\ IF part THEN count' = count + 1 /\ reader' = "flushes"
             ELSE reader' = "ended" /\ UNCHANGED count
  /\ UNCHANGED <<sandbox, kind, consumer, close, faulted, follow, cursor, fetched, base, cut, child, pipe, part, joiner, linking, tunnel, stop>>

\* The part may be all of the line but its newline; not of a line that is still being written.
HandPart ==
  /\ kind = "piped" /\ reader = "flushes" /\ reader' = "ended"
  /\ \E isCut \in BOOLEAN : (torn /\ count = lines => isCut) /\ Consume(count, isCut)
  /\ UNCHANGED <<sandbox, kind, close, faulted, follow, fetch, child, pipe, part, joiner, linking, tunnel, stop>>

Proxy ==
  /\ kind = "piped" /\ joiner = "none" /\ joiner' = "proxy"
  /\ UNCHANGED <<sandbox, kind, consumer, close, faulted, follow, fetch, child, pipe, part, reader, linking, tunnel, stop>>

Killer ==
  /\ kind = "piped" /\ close # "open" /\ child = "runs"
  /\ child' = "killed"
  /\ UNCHANGED <<sandbox, kind, consumer, close, faulted, follow, fetch, pipe, part, reader, joiner, linking, tunnel, stop>>

\* watchdog_loop returns when asked to close, and when the child is gone by itself.
WatchdogLeaves ==
  /\ kind = "piped" /\ follow = "poll"
  /\ close # "open" \/ child # "runs"
  /\ follow' = "end"
  /\ UNCHANGED <<sandbox, kind, consumer, close, faulted, fetch, piped, linking, tunnel, stop>>

\* msb ls does not list the sandbox: the child is killed and waited for.  running_names_via does not
\* look at the exit code, so a failing msb ls lists nothing.
WatchdogFires ==
  /\ kind = "piped" /\ follow = "poll" /\ close = "open" /\ child = "runs"
  /\ IF up THEN ~faulted /\ faulted' = TRUE ELSE UNCHANGED faulted
  /\ child' = "killed" /\ follow' = "snapshot"
  /\ UNCHANGED <<sandbox, kind, consumer, close, fetch, pipe, part, reader, joiner, linking, tunnel, stop>>

\* quiesce_reader_then_snapshot joins the reader only if its handle is still in the slot.
TakeReader ==
  /\ kind = "piped" /\ follow = "snapshot" /\ joiner = "none"
  /\ joiner' = "watchdog"
  /\ UNCHANGED <<sandbox, kind, consumer, close, faulted, follow, fetch, child, pipe, part, reader, linking, tunnel, stop>>

Snapshot ==
  /\ kind = "piped" /\ follow = "snapshot" /\ joiner # "none"
  /\ joiner = "watchdog" => reader = "ended"
  /\ cursor' = count /\ follow' = "fetch"
  /\ UNCHANGED <<sandbox, kind, consumer, close, faulted, count, fetched, base, cut, piped, linking, tunnel, stop>>

\* msb logs --tail on a log of n lines: those before the ones it shows, and how many it shows.
Before(n) == IF n > LogTail THEN n - LogTail ELSE 0
Shown(n) == n - Before(n)

Fetched(upTo) ==
  /\ fetched' = upTo /\ base' = Before(lines)
  /\ cut' = (torn /\ upTo = Shown(lines))

\* The one authoritative fetch; if it fails nothing is replayed.
FetchTail ==
  /\ kind = "piped" /\ follow = "fetch"
  /\ \/ follow' = "replay" /\ Fetched(Shown(lines)) /\ UNCHANGED faulted
     \/ ~faulted /\ faulted' = TRUE /\ follow' = "end" /\ UNCHANGED <<fetched, base, cut>>
  /\ UNCHANGED <<sandbox, kind, consumer, close, count, cursor, piped, linking, tunnel, stop>>

\* The replay skips as many lines of the fetch as the reader counted.
Replay ==
  /\ kind = "piped" /\ follow = "replay"
  /\ IF cursor < fetched
       THEN /\ cursor' = cursor + 1 /\ UNCHANGED follow
            /\ Consume(base + cursor + 1, cut /\ cursor + 1 = fetched)
       ELSE follow' = "end" /\ UNCHANGED <<cursor, consumer>>
  /\ UNCHANGED <<sandbox, kind, close, faulted, count, fetched, base, cut, piped, linking, tunnel, stop>>

-----------------------------------------------------------------------------
(* spawn_follow_polling: one thread, msb ls then msb logs, again and again.*)

\* close_requested is read at the top of a round and before each line.
PollLeaves ==
  /\ kind = "polled" /\ follow \in {"poll", "replay", "tail"} /\ close # "open"
  /\ follow' = "end"
  /\ UNCHANGED <<sandbox, kind, consumer, close, faulted, fetch, piped, linking, tunnel, stop>>

\* Mutant: the poller ends when the sandbox does, without a last fetch.
PollListOnly ==
  /\ kind = "polled" /\ follow = "poll" /\ close = "open"
  /\ follow' = IF up THEN "logs" ELSE "end"
  /\ UNCHANGED <<sandbox, kind, consumer, close, faulted, fetch, piped, linking, tunnel, stop>>

\* msb ls; if it fails it is tried again.
PollList ==
  /\ kind = "polled" /\ follow = "poll" /\ close = "open"
  /\ follow' = IF up THEN "logs" ELSE "last"
  /\ UNCHANGED <<sandbox, kind, consumer, close, faulted, fetch, piped, linking, tunnel, stop>>

\* Mutant: nothing is held back.
PollLogsAll ==
  /\ kind = "polled" /\ follow = "logs" /\ follow' = "replay"
  /\ Fetched(Shown(lines))
  /\ UNCHANGED <<sandbox, kind, consumer, close, faulted, count, cursor, piped, linking, tunnel, stop>>

\* While the sandbox was listed as running the last line of the fetch is held back.
PollLogs ==
  /\ kind = "polled" /\ follow = "logs" /\ follow' = "replay"
  /\ Fetched(IF Shown(lines) > cursor + 1 THEN Shown(lines) - 1 ELSE cursor)
  /\ UNCHANGED <<sandbox, kind, consumer, close, faulted, count, cursor, piped, linking, tunnel, stop>>

\* deliver_terminal_tail: msb logs is tried until it succeeds, the follower is closed or the budget is
\* used up.
PollLast ==
  /\ kind = "polled" /\ follow = "last"
  /\ \/ Fetched(Shown(lines)) /\ follow' = "tail" /\ UNCHANGED faulted
     \/ ~faulted /\ faulted' = TRUE /\ follow' = "end" /\ UNCHANGED <<fetched, base, cut>>
     \/ close # "open" /\ follow' = "end" /\ UNCHANGED <<faulted, fetched, base, cut>>
  /\ UNCHANGED <<sandbox, kind, consumer, close, count, cursor, piped, linking, tunnel, stop>>

\* The flag was not set: the poller is on its way to call the consumer.
PollNext ==
  /\ kind = "polled" /\ follow \in {"replay", "tail"} /\ cursor < fetched /\ close = "open"
  /\ cursor' = cursor + 1
  /\ follow' = IF follow = "tail" THEN "handlast" ELSE "hand"
  /\ UNCHANGED <<sandbox, kind, consumer, close, faulted, count, fetched, base, cut, piped, linking, tunnel, stop>>

PollHand ==
  /\ kind = "polled" /\ follow \in {"hand", "handlast"}
  /\ Consume(base + cursor, cut /\ cursor = fetched)
  /\ follow' = IF follow = "handlast" THEN "tail" ELSE "replay"
  /\ UNCHANGED <<sandbox, kind, close, faulted, fetch, piped, linking, tunnel, stop>>

PollRound ==
  /\ kind = "polled" /\ follow \in {"replay", "tail"} /\ cursor >= fetched
  /\ follow' = IF follow = "tail" THEN "end" ELSE "poll"
  /\ UNCHANGED <<sandbox, kind, consumer, close, faulted, fetch, piped, linking, tunnel, stop>>

-----------------------------------------------------------------------------
(* docker's follow_logs: one task on the stream of the daemon, which ends  *)
(* when the container does.                                                *)

TaskLeaves ==
  /\ kind = "task" /\ follow = "poll" /\ close # "open"
  /\ follow' = "end"
  /\ UNCHANGED <<sandbox, kind, consumer, close, faulted, fetch, piped, linking, tunnel, stop>>

\* The flag was not set: the task is on its way to call the consumer with a line.
TaskNext ==
  /\ kind = "task" /\ follow = "poll" /\ close = "open" /\ cursor < Whole
  /\ cursor' = cursor + 1 /\ follow' = "hand"
  /\ UNCHANGED <<sandbox, kind, consumer, close, faulted, count, fetched, base, cut, piped, linking, tunnel, stop>>

\* A stream error ends the delivery like the end of the stream does: the assembler's tail is flushed.
TaskFails ==
  /\ kind = "task" /\ follow = "poll" /\ close = "open" /\ ~faulted
  /\ faulted' = TRUE
  /\ \/ torn /\ cursor = Whole /\ cursor' = lines /\ cut' = TRUE /\ follow' = "handlast"
     \/ follow' = "end" /\ UNCHANGED <<cursor, cut>>
  /\ UNCHANGED <<sandbox, kind, consumer, close, count, fetched, base, piped, linking, tunnel, stop>>

TaskHand ==
  /\ kind = "task" /\ follow \in {"hand", "handlast"}
  /\ Consume(cursor, cut)
  /\ follow' = IF follow = "hand" THEN "poll" ELSE "end"
  /\ UNCHANGED <<sandbox, kind, close, faulted, fetch, piped, linking, tunnel, stop>>

TaskEnds ==
  /\ kind = "task" /\ follow = "poll" /\ close = "open" /\ ~up /\ cursor = lines
  /\ follow' = "end"
  /\ UNCHANGED <<sandbox, kind, consumer, close, faulted, fetch, piped, linking, tunnel, stop>>

-----------------------------------------------------------------------------
(* install_network_links.                                                  *)

Has(protocol) == \E i \in DOMAIN batch : batch[i].protocol = protocol

\* One link per protocol and port, and names a shell cannot trip over.
Accepted(b) ==
  /\ \A i, j \in DOMAIN b : i # j => <<b[i].protocol, b[i].port>> # <<b[j].protocol, b[j].port>>
  /\ \A i \in DOMAIN b : b[i].valid

Install ==
  /\ link = "asked"
  /\ \E b \in Links[kind] :
       /\ batch' = b
       /\ link' = IF b = <<>> THEN "linked" ELSE IF Accepted(b) THEN "probe" ELSE "failed"
  /\ UNCHANGED <<sandbox, follower, tunnel, stop>>

\* An msb exec of each step fails, or the image has no (busybox) nc.
LinkFails ==
  /\ link \in {"probe", "hosts", "udp"} /\ link' = "failed"
  /\ UNCHANGED <<sandbox, follower, batch, tunnel, stop>>

Probe ==
  /\ link = "probe" /\ up /\ link' = "hosts"
  /\ UNCHANGED <<sandbox, follower, batch, tunnel, stop>>

Hosts ==
  /\ link = "hosts" /\ up
  /\ link' = IF Has("udp") THEN "udp" ELSE "tunnels"
  /\ UNCHANGED <<sandbox, follower, batch, tunnel, stop>>

\* install_udp_forwarder returns once the guest's kernel lists the port as bound.
Forward ==
  /\ link = "udp" /\ up /\ link' = "tunnels"
  /\ UNCHANGED <<sandbox, follower, batch, tunnel, stop>>

Tunnels ==
  /\ link = "tunnels" /\ link' = "linked"
  /\ worker' = IF Has("tcp") THEN "loop" ELSE "none"
  /\ UNCHANGED <<sandbox, follower, batch, nc, current, target, severed, serves, stop>>

-----------------------------------------------------------------------------
(* The worker of an ExecTunnel.                                            *)

Closed == stop \in {"kills", "severs", "joins", "stops", "returned"}

Leave ==
  /\ worker = "loop" /\ Closed /\ worker' = "gone"
  /\ UNCHANGED <<sandbox, follower, linking, nc, current, target, severed, serves, stop>>

\* msb exec --stream of nc -l; in a sandbox that is gone it ends at once.
Spawn ==
  /\ worker = "loop" /\ ~Closed /\ worker' = "spawned"
  /\ nc' = IF up THEN "runs" ELSE "dead"
  /\ UNCHANGED <<sandbox, follower, linking, current, target, severed, serves, stop>>

Publish ==
  /\ worker = "spawned" /\ worker' = "listens" /\ current' = TRUE
  /\ UNCHANGED <<sandbox, follower, linking, nc, target, severed, serves, stop>>

\* A client in the guest connects and sends its first byte.
Accept ==
  /\ worker = "listens" /\ nc = "runs" /\ serves < MaxServes
  /\ serves' = serves + 1 /\ worker' = "connects"
  /\ UNCHANGED <<sandbox, follower, linking, nc, current, target, severed, stop>>

\* The listener ended without traffic.
Unheard ==
  /\ worker = "listens" /\ nc = "dead" /\ worker' = "kills"
  /\ UNCHANGED <<sandbox, follower, linking, nc, current, target, severed, serves, stop>>

Connect ==
  /\ worker = "connects" /\ worker' \in {"publishes", "kills"}
  /\ UNCHANGED <<sandbox, follower, linking, nc, current, target, severed, serves, stop>>

PublishTarget ==
  /\ worker = "publishes" /\ worker' = "pumps" /\ target' = TRUE
  /\ UNCHANGED <<sandbox, follower, linking, nc, current, severed, serves, stop>>

\* The target closes or is idle, or its socket was shut down.
PumpEnds ==
  /\ worker = "pumps" /\ worker' = "kills"
  /\ target' = FALSE /\ severed' = FALSE
  /\ UNCHANGED <<sandbox, follower, linking, nc, current, serves, stop>>

\* kill_current, then ClearOnReturn.
KillCurrent ==
  /\ worker = "kills" /\ worker' = "loop"
  /\ nc' = "none" /\ current' = FALSE
  /\ UNCHANGED <<sandbox, follower, linking, target, severed, serves, stop>>

-----------------------------------------------------------------------------
(* MsbCliBackend::stop: ExecTunnel::drop in four steps, then msb stop.     *)

StopBegins ==
  /\ stop = "no" /\ link \in {"linked", "failed"}
  /\ stop' = IF worker = "none" THEN "stops" ELSE "closes"
  /\ UNCHANGED <<sandbox, follower, linking, tunnel>>

SetClosed ==
  /\ stop = "closes" /\ stop' = "kills"
  /\ UNCHANGED <<sandbox, follower, linking, tunnel>>

KillListener ==
  /\ stop = "kills" /\ stop' = "severs"
  /\ nc' = IF current /\ nc = "runs" THEN "dead" ELSE nc
  /\ UNCHANGED <<sandbox, follower, linking, worker, current, target, severed, serves>>

Sever ==
  /\ stop = "severs" /\ stop' = "joins"
  /\ severed' = target
  /\ UNCHANGED <<sandbox, follower, linking, worker, nc, current, target, serves>>

\* Mutant: the worker is not joined.
JoinNobody ==
  /\ stop = "joins" /\ stop' = "stops"
  /\ UNCHANGED <<sandbox, follower, linking, tunnel>>

Join ==
  /\ stop = "joins" /\ worker = "gone" /\ stop' = "stops"
  /\ UNCHANGED <<sandbox, follower, linking, tunnel>>

\* msb stop; its failure is ignored.
MsbStop ==
  /\ stop = "stops" /\ stop' = "returned"
  /\ Ends \/ UNCHANGED <<up, torn, nc>>
  /\ UNCHANGED <<lines, follower, linking, worker, current, target, severed, serves>>

\* A dropped guard: cleanup_sync stops the sandbox, nobody drops its tunnels.
DropGuard ==
  /\ stop = "no" /\ link = "linked" /\ stop' = "dropped"
  /\ Ends
  /\ UNCHANGED <<lines, follower, linking, worker, current, target, severed, serves>>

-----------------------------------------------------------------------------

Following ==
  \/ Relay \/ RelayPart \/ ReadLine \/ HandLine \/ ReadEnd \/ HandPart \/ Proxy \/ Killer
  \/ WatchdogLeaves \/ (WatchdogFires /\ ~up) \/ TakeReader \/ Snapshot \/ FetchTail \/ Replay
  \/ PollLeaves \/ PollList \/ PollLogs \/ PollLast \/ PollNext \/ PollHand \/ PollRound
  \/ TaskLeaves \/ TaskNext \/ TaskHand \/ TaskEnds

Working ==
  \/ Leave \/ Spawn \/ Publish \/ Unheard \/ Connect \/ PublishTarget \/ PumpEnds \/ KillCurrent

Stopping == SetClosed \/ KillListener \/ Sever \/ Join \/ MsbStop

Next ==
  \/ Write \/ Exit \/ CloseFollow \/ CloseReturns \/ FollowExits \/ WatchdogFires \/ TaskFails
  \/ Following
  \/ Install \/ LinkFails \/ Probe \/ Hosts \/ Forward \/ Tunnels
  \/ Accept \/ Working
  \/ StopBegins \/ Stopping \/ DropGuard

Spec == Init /\ [][Next]_vars

(* Threads run on, children answer; the workload, the guest's clients and  *)
(* the owner of the guard need not do anything.                            *)
FairSpec ==
  /\ Spec
  /\ WF_vars(Relay) /\ WF_vars(ReadLine \/ HandLine \/ ReadEnd \/ HandPart) /\ WF_vars(Proxy) /\ WF_vars(Killer)
  /\ WF_vars(WatchdogLeaves \/ (WatchdogFires /\ ~up) \/ TakeReader \/ Snapshot \/ FetchTail \/ Replay)
  /\ WF_vars(PollLeaves \/ PollList \/ PollLogs \/ PollLast \/ PollNext \/ PollHand \/ PollRound)
  /\ WF_vars(TaskLeaves \/ TaskNext \/ TaskHand \/ TaskEnds)
  /\ WF_vars(CloseReturns) /\ WF_vars(Working) /\ WF_vars(Stopping)

-----------------------------------------------------------------------------
(* The lines reach the consumer in the order of the log, none of them      *)
(* twice, whichever fetches they come from and however far the last        *)
(* LogTail lines have moved on between them; a task skips none.  Where the *)
(* reader of a piped follower is the proxy's to join, and may still hand   *)
(* lines over during the replay, a line comes twice at most.  A part of a  *)
(* line is handed over after a failure only, or once, as the last of what  *)
(* was in the pipe.  (drain_lines, flush_tail_once, spawn_follow_polling,  *)
(* follow_logs)                                                            *)
Lines == 1..MaxLines

Times(l) == Cardinality({i \in DOMAIN out : out[i].line = l})

InOrder == \A i, j \in DOMAIN out : i < j => out[i].line < out[j].line

OnceInOrder ==
  /\ ~(kind = "piped" /\ joiner = "proxy") => InOrder
  /\ \A l \in Lines : Times(l) <= 2
  /\ kind = "task" => \A i \in DOMAIN out : out[i].line = i
  /\ \A i \in DOMAIN out :
       out[i].cut => faulted \/ (kind = "piped" /\ reader = "ended" /\ out[i].line = count)

(* watchdog.rs, module doc, 1.: the watchdog joins the reader before it    *)
(* takes its snapshot, which "is what rules out delivering the same        *)
(* complete line twice (once live, once replayed)": whenever msb answers.  *)
NoLineTwice == ~faulted => \A l \in Lines : Times(l) <= 1

(* Once close() has returned a follower made of threads calls the consumer *)
(* no more; a task, which is aborted and not joined, at most once.         *)
(* (FollowHandle::close, JoinTarget::join_best_effort)                     *)
Silent == late <= IF kind = "task" THEN 1 ELSE 0

(* The sandbox is stopped only when the worker of its tunnel has ended and *)
(* no msb exec of it is alive. (MsbCliBackend::stop, ExecTunnel::drop)     *)
TunnelsFirst == stop \in {"stops", "returned"} => worker \in {"none", "gone"} /\ nc = "none"

(* When the sandbox has stopped, every line of its log, the last           *)
(* unterminated one included, reaches a consumer that does not close its   *)
(* handle: all of it, or the part that msb logs -f had relayed when it was *)
(* killed.  The exceptions are a failure of msb or of the stream, and a log*)
(* of more lines than a fetch of msb's shows.                              *)
(* (flush_tail_once, spawn_follow_polling, deliver_terminal_tail)          *)
AllDelivered ==
  [](~up => <>(\/ close # "open" \/ faulted
               \/ (kind # "task" /\ lines > LogTail)
               \/ \A l \in 1..lines : Times(l) >= 1))

=============================================================================
